---------------------------- MODULE Spec2Model ----------------------------
(***************************************************************************)
(* Model of the attendance scraper (src/main.py, src/backend/engine) and   *)
(* of the request-scoped log relay and request table                       *)
(* (src/backend/api/main.py, src/backend/engine/stream.py).                *)
(*                                                                         *)
(* Seven specifications share the module's variables:                       *)
(*   SpecCsrf  - the pure function _extract_csrf_token on bounded bodies   *)
(*   Spec      - one scraper session: fetch_student_attendance             *)
(*   SpecSrv   - the websocket server: request_store, active_connections,  *)
(*               process_attendance_task, log handlers, the sweep          *)
(*   SpecFmt   - _parse_attendance_table and _format_attendance_data on    *)
(*               bounded report tables                                     *)
(*   SpecBunk  - the pure function calculate_bunkable                      *)
(*   SpecLoop  - calculate_bunkable turn by turn, under fair scheduling    *)
(*   SpecKeep  - the websocket server of one client with the pings of    *)
(*               its keepalive loop, under fair scheduling                 *)
(***************************************************************************)
EXTENDS Integers, Sequences, FiniteSets, TLC

VARIABLES
    \* ---- CSRF extractor harness
    csrfBody,          \* the html body handed to _extract_csrf_token
    csrfOut,           \* "pending", or the result of the call
    \* ---- one scraper session
    variant,           \* "main" (src/main.py) or "engine" (src/backend/engine)
    pc,                \* position inside fetch_student_attendance
    batch_class_ids,   \* self.batch_class_ids
    configured,        \* the value batch_class_ids had after construction
    auto_ids,          \* self._auto_discovered_batch_ids
    pr_suggestion,     \* self._pr_suggestion is set
    cookies,           \* the session cookie jar (CSRF cookies only)
    csrf_token,        \* token in use (login token, then the scrape token)
    idx,               \* index of the next candidate in the fetch loop
    reqLog,            \* every portal request issued, in order
    loginFinal,        \* the final response login() looked at
    loginResult,       \* how login() ended: not yet, ok, or the exception raised
    scrapeResult,      \* what scrape_attendance_data returned or raised
    discoverySeen,     \* results of _fetch_semester_batch_ids so far, in order
    candidates,        \* batch_ids, the normalised list the fetch loop walks
    fetched,           \* per candidate tried: its id and what the fetch returned
    lastWhy,           \* how the latest candidate's fetch ended
    callResult,        \* what the caller of fetch_student_attendance received
    httpResponse,      \* what POST /attendance answered for the call
    request,           \* the body of the POST /attendance request
    r0,                \* login(): the landing response, until the POST is sent
    \* ---- the websocket server
    request_store,     \* request id -> its request context
    active_connections,\* request ids with a registered websocket
    wsPc,              \* position of each websocket_attendance handler
    open,              \* connections the client has not closed
    sent,              \* per connection: messages transmitted to it, in order
    taskPc,            \* position of each process_attendance_task
    handlers,          \* RequestLogHandlers attached to app_logger
    handlerLogs,       \* log_handler.logs of each request's handler
    broadcasts,        \* per request: broadcast_log tasks created, not yet run
    now,               \* time.time()
    \* ---- parser and formatter harness
    fmtVariant,        \* "main" (src/main.py) or "engine" (src/backend)
    tableRows,         \* the <tr> rows of the report table, as cell texts
    parserOut,         \* what _parse_attendance_table returned, once it has
    formatterOut,      \* what _format_attendance_data returned, once it has
    \* ---- calculate_bunkable harness
    bunkArgs,          \* total_classes, attended_classes, threshold
    bunkOut,           \* the value returned, once it has
    maxBunkable,       \* max_bunkable, the counter of the while loop
    whileTest          \* the value of the while condition at each counter value

csrfVars == <<csrfBody, csrfOut>>
scraperVars == <<variant, pc, batch_class_ids, configured, auto_ids,
                 pr_suggestion, cookies, csrf_token, idx, reqLog, loginFinal,
                 loginResult, scrapeResult, discoverySeen, candidates, fetched,
                 lastWhy, callResult, httpResponse, request, r0>>
srvVars == <<request_store, active_connections, wsPc, open, sent, taskPc,
             handlers, handlerLogs, broadcasts, now>>
fmtVars == <<fmtVariant, tableRows, parserOut, formatterOut>>
bunkVars == <<bunkArgs, bunkOut, maxBunkable, whileTest>>
fnVars == <<fmtVars, bunkVars>>
vars == <<csrfVars, scraperVars, srvVars, fnVars>>

----------------------------------------------------------------------------
(* Bounds *)
MaxBody == 3      \* elements in a body given to the CSRF extractor
MaxIds == 2       \* configured batch ids; <option>s in a discovery response
MaxTime == 6      \* the clock stops here

----------------------------------------------------------------------------
(* Python values *)
None == "None"

\* Sequences over S of length at most n
RECURSIVE SeqUpTo(_, _)
SeqUpTo(S, n) ==
    IF n = 0 THEN {<<>>}
    ELSE LET shorter == SeqUpTo(S, n - 1)
         IN  shorter \cup {Append(s, x) : s \in {t \in shorter : Len(t) = n - 1}, x \in S}

\* Python's `a or b` on strings, "" and None being falsy
Truthy(s) == s # "" /\ s # None
Or(a, b) == IF Truthy(a) THEN a ELSE b

----------------------------------------------------------------------------
(* HTML bodies: a document is a sequence of elements in document order.     *)
(* An element has a tag, a name attribute, a value (value / content /      *)
(* assigned literal / text) and, for inputs, whether it sits in the login   *)
(* form.                                                                    *)
Elem(tag, name, val, inForm) == [tag |-> tag, name |-> name, val |-> val, inForm |-> inForm]

\* Values shaped like a UUID (tier 4's pattern), and values made of at least
\* 8 hex digits or dashes (tier 3's capture group; every UUID is one)
UuidShaped == {"U_IN", "U_SC", "U_TX"}
HexIsh == UuidShaped \cup {"B"}

MetaNames == <<"_csrf", "csrf-token", "csrf">>

CsrfElements ==
    {Elem("input", "_csrf", v, FALSE) : v \in {"", "A", "U_IN"}}
    \cup {Elem("meta", "_csrf", v, FALSE) : v \in {"", "M1"}}
    \cup {Elem("meta", "csrf-token", v, FALSE) : v \in {"", "M2"}}
    \cup {Elem("meta", "csrf", v, FALSE) : v \in {"", "M3"}}
    \cup {Elem("script", "_csrf", v, FALSE) : v \in {"B", "zz", "U_SC"}}
    \cup {Elem("text", "", v, FALSE) : v \in {"plain", "U_TX"}}

Bodies == SeqUpTo(CsrfElements, MaxBody)

NoElem == Elem("none", "", "", FALSE)

\* soup.find(tag, {"name": name}): the first such element, or NoElem
Find(body, tag, name) ==
    LET hits == {i \in 1..Len(body) : body[i].tag = tag /\ body[i].name = name}
    IN  IF hits = {} THEN NoElem
        ELSE body[CHOOSE i \in hits : \A j \in hits : i <= j]

\* 1) standard hidden input
CsrfFromInput(body) ==
    LET csrf_input == Find(body, "input", "_csrf")
    IN  IF csrf_input # NoElem /\ csrf_input.val # "" THEN csrf_input.val ELSE None

\* 2) meta tags, the names tried in order
RECURSIVE CsrfFromMetaAt(_, _)
CsrfFromMetaAt(body, k) ==
    IF k > Len(MetaNames) THEN None
    ELSE LET m == Find(body, "meta", MetaNames[k])
         IN  IF m # NoElem /\ m.val # "" THEN m.val ELSE CsrfFromMetaAt(body, k + 1)

CsrfFromMeta(body) == CsrfFromMetaAt(body, 1)

\* re.search over the raw text: the first element, in document order, whose
\* text matches
FirstMatch(body, hits) ==
    IF hits = {} THEN None
    ELSE body[CHOOSE i \in hits : \A j \in hits : i <= j].val

\* 3) inline assignment  _csrf = '<hex-ish>'
ScriptMatches(e) == e.tag = "script" /\ e.name = "_csrf" /\ e.val \in HexIsh
CsrfFromScript(body) ==
    FirstMatch(body, {i \in 1..Len(body) : ScriptMatches(body[i])})

\* 4) any UUID in the page, whatever element holds it
UuidMatches(e) == e.val \in UuidShaped
CsrfFromUuid(body) ==
    FirstMatch(body, {i \in 1..Len(body) : UuidMatches(body[i])})

\* A call's outcome: a returned value, or a raised exception type
Return(v) == [exc |-> None, val |-> v]
Raise(e) == [exc |-> e, val |-> None]

Pending == [exc |-> "pending", val |-> None]

CsrfNotFound == Raise("AuthenticationError")

\* Altered: the inline-script tier consulted before the hidden input
ExtractScriptFirst(body) ==
    IF CsrfFromScript(body) # None THEN Return(CsrfFromScript(body))
    ELSE IF CsrfFromInput(body) # None THEN Return(CsrfFromInput(body))
    ELSE IF CsrfFromMeta(body) # None THEN Return(CsrfFromMeta(body))
    ELSE IF CsrfFromUuid(body) # None THEN Return(CsrfFromUuid(body))
    ELSE CsrfNotFound

\* PESUAttendanceScraper._extract_csrf_token (src/main.py)
_extract_csrf_token(body) ==
    IF CsrfFromInput(body) # None THEN Return(CsrfFromInput(body))
    ELSE IF CsrfFromMeta(body) # None THEN Return(CsrfFromMeta(body))
    ELSE IF CsrfFromScript(body) # None THEN Return(CsrfFromScript(body))
    ELSE IF CsrfFromUuid(body) # None THEN Return(CsrfFromUuid(body))
    ELSE CsrfNotFound

\* PESUAttendanceScraper._extract_csrf_token (src/backend/engine/fetch.py):
\* the hidden input only
EngineExtractCsrf(body) ==
    IF CsrfFromInput(body) # None THEN Return(CsrfFromInput(body)) ELSE CsrfNotFound

----------------------------------------------------------------------------
(* Scraper: values *)

\* self.batch_class_ids and return values: None, an int, or a list
PyNone == [t |-> "None", v |-> <<>>]
PyInt(n) == [t |-> "int", v |-> <<n>>]
PyList(s) == [t |-> "list", v |-> s]

\* a call that has not returned yet
NoValue == [t |-> "pending", v |-> <<>>]

\* Python truthiness of None / int / list
PyTruthy(x) ==
    CASE x.t = "None" -> FALSE
      [] x.t = "int" -> x.v[1] # 0
      [] x.t = "list" -> x.v # <<>>

BatchIdDomain == {0, 101}

\* str(bid)
Str(n) == CASE n = 0 -> "0" [] n = 101 -> "101" [] n = 102 -> "102" [] OTHER -> "?"

\* PESUAttendanceScraper._normalize_batch_ids
_normalize_batch_ids(b) ==
    IF b.t = "list" THEN [i \in 1..Len(b.v) |-> Str(b.v[i])]
    ELSE IF b.t = "int" THEN <<Str(b.v[1])>>
    ELSE <<"None">>

\* Altered: discovery is attempted whatever is configured
NeedsDiscoveryAlways(b) == TRUE

\* `if not self.batch_class_ids:` in login() and scrape_attendance_data()
NeedsDiscovery(b) == ~PyTruthy(b)

\* `self.batch_class_ids = ids if len(ids) > 1 else ids[0]`
AdoptDiscovered(ids) == IF Len(ids) > 1 THEN PyList(ids) ELSE PyInt(ids[1])

----------------------------------------------------------------------------
(* Scraper: the portal's responses *)

\* The cookie jar: the two CSRF cookies and whether a session cookie is held
Jar(x, c, sess) == [xsrf |-> x, csrf |-> c, session |-> sess]
EmptyJar == Jar(None, None, FALSE)
CookieJars == {EmptyJar, Jar("CK1", "CK2", TRUE), Jar(None, "CK2", FALSE)}

\* cookies.get("XSRF-TOKEN") or cookies.get("CSRF-TOKEN")
CookieCsrf(jar) == Or(jar.xsrf, jar.csrf)

FormInput(v) == Elem("input", "_csrf", v, TRUE)

\* r0 of login(): the body of the landing response once it is at hand
Landing(body) == [seen |-> TRUE, body |-> body]
NoLanding == [seen |-> FALSE, body |-> <<>>]

LandingBodies ==
    { <<>>,
      <<FormInput("A")>>,
      <<FormInput("")>>,
      <<Elem("input", "_csrf", "U_IN", FALSE), FormInput("A")>>,
      <<FormInput(""), Elem("script", "_csrf", "B", FALSE)>>,
      <<Elem("text", "", "plain", FALSE)>> }

PostBodies == { <<>>, <<Elem("input", "_csrf", "A", FALSE)>> }

\* An HTTP exchange: a network failure, or a response with a status, whether
\* its final url starts with http://, whether its body shows the login
\* markers, and its body
Resp(st, http, markers, body) ==
    [net |-> FALSE, status |-> st, http |-> http, markers |-> markers, body |-> body]
NetErr == [net |-> TRUE, status |-> 0, http |-> FALSE, markers |-> FALSE, body |-> <<>>]
NoResp == [net |-> FALSE, status |-> 0, http |-> FALSE, markers |-> FALSE, body |-> <<>>]

LandingResponses ==
    {NetErr, Resp(404, FALSE, FALSE, <<>>)}
    \cup {Resp(200, FALSE, TRUE, b) : b \in LandingBodies}

PostResponses ==
    {NetErr}
    \cup {Resp(st, h, m, b) : st \in {200, 404}, h \in BOOLEAN,
                              m \in BOOLEAN, b \in PostBodies}

RetryResponses ==
    {NetErr}
    \cup {Resp(st, FALSE, m, b) : st \in {200, 404}, m \in BOOLEAN, b \in PostBodies}

ProfileResponses ==
    {NetErr, Resp(404, FALSE, FALSE, <<>>)}
    \cup {Resp(200, FALSE, FALSE, b) : b \in PostBodies}

ValidateResponses ==
    {[net |-> TRUE, status |-> 0, location |-> FALSE]}
    \cup {[net |-> FALSE, status |-> st, location |-> l] : st \in {200, 302, 404}, l \in BOOLEAN}

\* The semesters endpoint: <option> values (or JSON item values) in order
OptionVals == {"", "abc", "0", "101", "b102"}

DiscoveryResponses ==
    {[net |-> TRUE, status |-> 0, vals |-> <<>>],
     [net |-> FALSE, status |-> 404, vals |-> <<>>]}
    \cup {[net |-> FALSE, status |-> 200, vals |-> s] : s \in SeqUpTo(OptionVals, MaxIds)}

\* int("".join(filter(str.isdigit, val))); -1 stands for the ValueError
DigitsToInt(val) ==
    CASE val = "0" -> 0 [] val = "101" -> 101 [] val = "b102" -> 102 [] OTHER -> -1

RECURSIVE ParseOptionValues(_)
ParseOptionValues(vals) ==
    IF vals = <<>> THEN <<>>
    ELSE LET val == Head(vals)
             rest == ParseOptionValues(Tail(vals))
         IN  IF val = "" \/ DigitsToInt(val) < 0 THEN rest
             ELSE <<DigitsToInt(val)>> \o rest

\* PESUAttendanceScraper._fetch_semester_batch_ids: a bare None when the
\* request fails, else the pair (values or None, texts or None)
_fetch_semester_batch_ids(resp) ==
    IF resp.net \/ resp.status >= 400
    THEN [t |-> "None", ids |-> PyNone]
    ELSE LET values == ParseOptionValues(resp.vals)
         IN  [t |-> "pair", ids |-> IF values # <<>> THEN PyList(values) ELSE PyNone]

\* Report pages: whether a table and its body are there, and the rows' cells
Page(table, tbody, trs) == [table |-> table, tbody |-> tbody, trs |-> trs]
NoPage == Page(FALSE, FALSE, <<>>)

Report(st, http, page) == [net |-> FALSE, status |-> st, http |-> http, page |-> page]
ReportNetErr == [net |-> TRUE, status |-> 0, http |-> FALSE, page |-> NoPage]
NoAlt == [net |-> FALSE, status |-> 0, http |-> FALSE, page |-> NoPage]

\* The report pages the portal serves in a session
SessionPages ==
    { NoPage,
      Page(TRUE, FALSE, <<>>),
      Page(TRUE, TRUE, << <<"CS101">> >>),
      Page(TRUE, TRUE, << <<"CS102", "OS", "NA">> >>),
      Page(TRUE, TRUE, << <<"CS101", "DS", "18/20">>, <<"CS102", "OS", "NA">> >>) }

ReportResponses ==
    {ReportNetErr}
    \cup {Report(200, FALSE, p) : p \in SessionPages}
    \cup {Report(404, h, NoPage) : h \in BOOLEAN}

AltResponses ==
    {ReportNetErr, Report(404, FALSE, NoPage)}
    \cup {Report(200, FALSE, p) : p \in SessionPages}

----------------------------------------------------------------------------
(* Scraper: parsing *)

\* PESUAttendanceScraper._is_valid_attendance_record (src/main.py)
_is_valid_attendance_record(row_data) ==
    IF Len(row_data) < 2 THEN FALSE
    ELSE IF row_data[1] = "" THEN FALSE
    ELSE TRUE

\* PESUAttendanceScraper._is_valid_attendance_record (src/backend/engine/fetch.py)
EngineIsValidRecord(row_data) ==
    IF Len(row_data) < 3 THEN FALSE
    ELSE IF row_data[3] = "NA" THEN FALSE
    ELSE TRUE

\* PESUAttendanceScraper._parse_attendance_table, with the reason it gave None
_parse_attendance_table(v, page) ==
    IF ~page.table THEN [val |-> PyNone, why |-> "no_table"]
    ELSE IF ~page.tbody THEN [val |-> PyNone, why |-> "no_tbody"]
    ELSE LET Keep(row_data) ==
                 /\ row_data # <<>>
                 /\ IF v = "main" THEN _is_valid_attendance_record(row_data)
                                  ELSE EngineIsValidRecord(row_data)
             attendance_records == SelectSeq(page.trs, Keep)
         IN  IF attendance_records # <<>>
             THEN [val |-> PyList(attendance_records), why |-> "rows"]
             ELSE [val |-> PyNone, why |-> "no_rows"]

\* _fetch_attendance_for_batch once a response arrived
FetchResponded(v, resp, alt) ==
    IF resp.status # 200
    THEN IF v = "main" /\ resp.http /\ ~alt.net /\ alt.status = 200
         THEN [exc |-> None] @@ _parse_attendance_table(v, alt.page)
         ELSE [exc |-> None, val |-> PyNone, why |-> "http_error"]
    ELSE [exc |-> None] @@ _parse_attendance_table(v, resp.page)

\* Altered: the network error on the report request is not caught
FetchNetErrEscapes(v, resp, alt) ==
    IF resp.net THEN [exc |-> "ConnectionError", val |-> PyNone, why |-> "network_error"]
    ELSE FetchResponded(v, resp, alt)

\* PESUAttendanceScraper._fetch_attendance_for_batch
_fetch_attendance_for_batch(v, resp, alt) ==
    IF resp.net THEN [exc |-> None, val |-> PyNone, why |-> "network_error"]
    ELSE FetchResponded(v, resp, alt)

\* Altered: the loop does not stop at the first candidate with rows
ReturnsEarlyNever(attendance_data) == FALSE

\* `if attendance_data: return attendance_data` in the candidate loop
ReturnsEarly(attendance_data) == PyTruthy(attendance_data)

----------------------------------------------------------------------------
(* Scraper: login *)

RequestExceptions == {"ConnectionError", "HTTPError"}

NotYet == [type |-> "none", msg |-> "", cause |-> None]
LoginOk == [type |-> "ok", msg |-> "", cause |-> None]

\* Altered: login() without its except clauses
LoginExceptMissing(e) == [type |-> e, msg |-> "", cause |-> e]

\* The except clauses that close login()
LoginExcept(e) ==
    IF e \in RequestExceptions
    THEN [type |-> "AuthenticationError", msg |-> "Network error during authentication", cause |-> e]
    ELSE [type |-> "AuthenticationError", msg |-> "Authentication failed", cause |-> e]

\* Altered: the scrape runs whatever login() did
AfterLoginAlwaysScrape(res) == "scrape_prepare"

\* Altered: the finally block is skipped when login() raised
AfterLoginSkipsFinally(res) == IF res.type = "ok" THEN "scrape_prepare" ELSE "done"

\* fetch_student_attendance: login() raising skips scrape_attendance_data()
\* and runs the finally block
AfterLogin(res) == IF res.type = "ok" THEN "scrape_prepare" ELSE "logout"

\* form_inputs.get("_csrf"): the value of the login form's last _csrf input
FormCsrf(body) ==
    LET hits == {i \in 1..Len(body) :
                    body[i].tag = "input" /\ body[i].name = "_csrf" /\ body[i].inForm}
    IN  IF hits = {} THEN None
        ELSE body[CHOOSE i \in hits : \A j \in hits : i >= j].val

\* Altered: the cookie value is preferred to the form and the page
LoginCsrfCookieFirst(body, jar) ==
    IF Truthy(CookieCsrf(jar)) THEN CookieCsrf(jar)
    ELSE IF Truthy(FormCsrf(body)) THEN FormCsrf(body)
    ELSE LET page == _extract_csrf_token(body)
         IN  IF page.exc # None THEN None ELSE page.val

\* login(): the token to post (form value > page token > cookie)
LoginCsrf(body, jar) ==
    LET form_csrf == FormCsrf(body)
        page == _extract_csrf_token(body)
        page_csrf == IF page.exc # None THEN None ELSE page.val
    IN  IF Truthy(form_csrf) THEN form_csrf
        ELSE IF Truthy(page_csrf) THEN page_csrf
        ELSE CookieCsrf(jar)

\* _prepare_profile_context, the token choice once the page is at hand
_prepare_profile_context(body, jar) ==
    LET page == _extract_csrf_token(body)
        html_csrf == IF page.exc # None THEN None ELSE page.val
        cookie_csrf == CookieCsrf(jar)
    IN  IF Truthy(html_csrf) THEN Return(html_csrf)
        ELSE IF Truthy(cookie_csrf) THEN Return(cookie_csrf)
        ELSE Raise("AuthenticationError")

\* What is kept of the final response of the login POST
Final(resp) == [status |-> resp.status, markers |-> resp.markers]

Req(kind, batch, tok) == [req |-> kind, batch |-> batch, tok |-> tok]

----------------------------------------------------------------------------
(* Scraper: one call of fetch_student_attendance *)

NotCalled == [t |-> "not_called", val |-> PyNone, exc |-> None, cause |-> None]
Returned(x) == [t |-> "returned", val |-> x, exc |-> None, cause |-> None]
Running == [t |-> "running", val |-> PyNone, exc |-> None, cause |-> None]
CallRaised(e) == [t |-> "raised", val |-> PyNone, exc |-> e, cause |-> None]

\* `except Exception as e: raise AttendanceScrapingError(...)` closing
\* scrape_attendance_data
ScrapeExcept(e) ==
    [t |-> "raised", val |-> PyNone, exc |-> "AttendanceScrapingError", cause |-> e]

\* the requests followed: an SRN of a cohort with a stored mapping, one of a
\* known cohort without a mapping, one of no known cohort, and requests that
\* lack the username or the password
Usernames == {"PES1UG23CS001", "PES1UG24ME001", "PES1UG22CS001", ""}

Requests ==
    {[username |-> u, password |-> "pw"] : u \in Usernames}
        \cup {[username |-> "PES1UG23CS001", password |-> ""]}

NoRequest == [username |-> "", password |-> ""]

\* src/main.py stores no mapping: every SRN of a known cohort is one without
\* configured batch ids, and one of them is followed
RequestsOf(v) ==
    IF v = "main" THEN {req \in Requests : req.username # "PES1UG24ME001"} ELSE Requests

\* the branches the SRN pattern allows after campus and year
SrnBranches(campus_year) ==
    CASE campus_year = "1UG23" -> {"CS", "AM"}
      [] campus_year = "1UG24" -> {"CS", "AM", "BT", "ME", "EC"}
      [] campus_year \in {"2UG23", "2UG24"} -> {"CS", "AM", "EC"}
      [] OTHER -> {}

\* re.match(pattern, srn): group 1 of the match, else None (`$` also matches
\* before a trailing newline)
MatchSrn(srn) ==
    LET body == IF Len(srn) = 14 /\ SubSeq(srn, 14, 14) = "\n"
                THEN SubSeq(srn, 1, 13) ELSE srn
    IN  IF /\ Len(body) = 13
           /\ SubSeq(body, 1, 3) = "PES"
           /\ SubSeq(body, 9, 10) \in SrnBranches(SubSeq(body, 4, 8))
           /\ \A i \in 11..13 :
                 SubSeq(body, i, i) \in {"0", "1", "2", "3", "4", "5", "6", "7", "8", "9"}
        THEN SubSeq(body, 4, 10)
        ELSE None

\* BATCH_CLASS_ID_MAPPING with one cohort stored
BatchClassIdMapping(m) == [prefix \in {"PES1UG23CS"} |-> m]

\* Altered: an identifier that cannot be resolved gets no batch ids
GetBranchConfigLenient(srn, mapping) ==
    LET group == MatchSrn(srn)
    IN  IF group = None THEN Return(PyNone)
        ELSE IF ("PES" \o group) \notin DOMAIN mapping THEN Return(PyNone)
        ELSE Return(mapping["PES" \o group])

\* MappingsConfig.get_branch_config (src/backend/core/config.py): the
\* batchClassId of the configuration returned, or the ValueError raised
get_branch_config(srn, mapping) ==
    LET group == MatchSrn(srn)
    IN  IF group = None THEN Raise("ValueError")
        ELSE IF ("PES" \o group) \notin DOMAIN mapping THEN Raise("ValueError")
        ELSE Return(mapping["PES" \o group])

\* Altered: src/main.py resolves as strictly as the backend, nothing stored
MainBranchConfigStrict(srn) == get_branch_config(srn, <<>>)

\* MappingsConfig.get_branch_config (src/main.py): batchClassId=None for
\* every identifier
MainBranchConfig(srn) == Return(PyNone)

\* `except ValueError as e: raise ConfigurationError(...)` closing __init__;
\* fetch_student_attendance constructs the scraper outside its try block
ConstructRaises ==
    /\ callResult' = CallRaised("ConfigurationError")
    /\ pc' = "done"
    /\ UNCHANGED <<batch_class_ids, configured>>

ConstructReturns(ids) ==
    /\ batch_class_ids' = ids
    /\ configured' = ids
    /\ pc' = "login_get"
    /\ UNCHANGED callResult

\* `if not username or not password` of get_attendance (src/main.py);
\* min_length=1 of AttendanceRequest (src/backend/api/main.py)
HasCredentials(req) == req.username # "" /\ req.password # ""

\* PESUAttendanceScraper.__init__ (src/main.py): permissive configuration,
\* an optional explicit batch_id
Construct ==
    /\ variant = "main" /\ pc = "new" /\ HasCredentials(request)
    /\ \E batch_id \in {-1} \cup BatchIdDomain :
          LET branch_config == MainBranchConfig(request.username)
          IN  IF branch_config.exc # None THEN ConstructRaises
              ELSE ConstructReturns(IF batch_id = -1 THEN branch_config.val
                                    ELSE PyList(<<batch_id>>))
    /\ UNCHANGED <<variant, auto_ids, pr_suggestion, cookies, csrf_token, idx, reqLog,
                   loginFinal, loginResult, scrapeResult, discoverySeen, candidates,
                   fetched, lastWhy, httpResponse, request, r0, csrfVars, fnVars, srvVars>>

\* PESUAttendanceScraper.__init__ (src/backend/engine/fetch.py): the branch
\* mapping holds an int or a list of ints
EngineConstruct ==
    /\ variant = "engine" /\ pc = "new" /\ HasCredentials(request)
    /\ \E m \in {PyInt(b) : b \in BatchIdDomain}
                \cup {PyList(ids) : ids \in SeqUpTo(BatchIdDomain, MaxIds)} :
          LET branch_config == get_branch_config(request.username, BatchClassIdMapping(m))
          IN  IF branch_config.exc # None THEN ConstructRaises
              ELSE ConstructReturns(branch_config.val)
    /\ UNCHANGED <<variant, auto_ids, pr_suggestion, cookies, csrf_token, idx, reqLog,
                   loginFinal, loginResult, scrapeResult, discoverySeen, candidates,
                   fetched, lastWhy, httpResponse, request, r0, csrfVars, fnVars, srvVars>>

\* login() left by an exception of type e raised inside its try block
LoginRaises(e) ==
    /\ loginResult' = LoginExcept(e)
    /\ pc' = AfterLogin(LoginExcept(e))

\* login() (src/main.py), lines 329-391: the landing GET and the token choice
LoginGet ==
    /\ variant = "main" /\ pc = "login_get"
    /\ \E resp \in LandingResponses, jar \in CookieJars :
          /\ reqLog' = Append(reqLog, Req("landing", "", ""))
          /\ IF resp.net
             THEN /\ LoginRaises("ConnectionError")
                  /\ UNCHANGED <<cookies, csrf_token, r0>>
             ELSE IF resp.status >= 400
             THEN /\ LoginRaises("HTTPError")
                  /\ r0' = Landing(resp.body)
                  /\ UNCHANGED <<cookies, csrf_token>>
             ELSE /\ cookies' = jar
                  /\ r0' = Landing(resp.body)
                  /\ LET token == LoginCsrf(resp.body, jar)
                     IN  IF ~Truthy(token)
                         THEN LoginRaises("AuthenticationError") /\ UNCHANGED csrf_token
                         ELSE /\ csrf_token' = token
                              /\ pc' = "login_post"
                              /\ UNCHANGED loginResult
    /\ UNCHANGED <<variant, batch_class_ids, configured, auto_ids, pr_suggestion, idx,
                   loginFinal, scrapeResult, discoverySeen, candidates, fetched, lastWhy,
                   callResult, httpResponse, request, csrfVars, fnVars, srvVars>>

\* login() (src/main.py), lines 393-460: the POST, the https retry of the
\* landing url, the marker check and the profile context
LoginPost ==
    /\ variant = "main" /\ pc = "login_post"
    /\ \E resp \in PostResponses, landing_resp \in RetryResponses \cup {NoResp} :
          /\ (landing_resp # NoResp) <=> (~resp.net /\ resp.http)
          /\ LET final_resp == IF resp.http /\ ~landing_resp.net /\ landing_resp.status < 400
                               THEN landing_resp ELSE resp
                 prep == _prepare_profile_context(final_resp.body, cookies)
                 posted == Append(reqLog, Req("login_post", "", csrf_token))
                 retried == IF resp.http THEN Append(posted, Req("https_retry", "", ""))
                                         ELSE posted
             IN  IF resp.net
                 THEN /\ LoginRaises("ConnectionError")
                      /\ reqLog' = posted
                      /\ UNCHANGED <<csrf_token, loginFinal>>
                 ELSE IF final_resp.markers
                 THEN /\ LoginRaises("AuthenticationError")
                      /\ reqLog' = retried
                      /\ loginFinal' = Final(final_resp)
                      /\ UNCHANGED csrf_token
                 ELSE /\ loginFinal' = Final(final_resp)
                      /\ reqLog' = IF prep.exc = None
                                   THEN Append(retried, Req("semesters_prep", "", ""))
                                   ELSE retried
                      /\ csrf_token' = None    \* csrf_after is a local of login()
                      /\ IF NeedsDiscovery(batch_class_ids)
                         THEN pc' = "login_discover" /\ UNCHANGED loginResult
                         ELSE loginResult' = LoginOk /\ pc' = AfterLogin(LoginOk)
    /\ r0' = NoLanding    \* the landing response is not read after the POST
    /\ UNCHANGED <<variant, batch_class_ids, configured, auto_ids, pr_suggestion, cookies,
                   idx, scrapeResult, discoverySeen, candidates, fetched, lastWhy, callResult, httpResponse, request,
                   csrfVars, fnVars, srvVars>>

\* login() (src/main.py), lines 462-480: auto-discovery when nothing is
\* configured; whatever it raises is swallowed
LoginDiscover ==
    /\ variant = "main" /\ pc = "login_discover"
    /\ \E d \in DiscoveryResponses :
          LET res == _fetch_semester_batch_ids(d)
          IN  /\ reqLog' = Append(reqLog, Req("semesters", "", ""))
              /\ discoverySeen' = Append(discoverySeen, res)
              /\ IF res.t = "pair" /\ PyTruthy(res.ids)
                 THEN /\ auto_ids' = res.ids
                      /\ batch_class_ids' = AdoptDiscovered(res.ids.v)
                 ELSE UNCHANGED <<auto_ids, batch_class_ids>>
    /\ loginResult' = LoginOk
    /\ pc' = AfterLogin(LoginOk)
    /\ UNCHANGED <<variant, configured, pr_suggestion, cookies, csrf_token, idx, loginFinal,
                   scrapeResult, candidates, fetched, lastWhy, callResult, httpResponse, request, r0,
                   csrfVars, fnVars, srvVars>>

\* scrape_attendance_data left by an exception of type e
ScrapeRaises(e) ==
    /\ scrapeResult' = ScrapeExcept(e)
    /\ pc' = "logout"

ScrapeReturns(x) ==
    /\ scrapeResult' = Returned(x)
    /\ pc' = "logout"

\* scrape_attendance_data (src/main.py), line 680: _prepare_profile_context()
\* fetching the profile page itself, one retry on an HTTP error when a
\* session cookie is held
ScrapePrepare ==
    /\ variant = "main" /\ pc = "scrape_prepare"
    /\ \E r1 \in ProfileResponses, r2 \in ProfileResponses \cup {NoResp} :
          /\ (r2 # NoResp) <=> (~r1.net /\ r1.status >= 400 /\ cookies.session)
          /\ LET r == IF r2 # NoResp THEN r2 ELSE r1
                 prep == _prepare_profile_context(r.body, cookies)
                 got == IF r2 # NoResp
                        THEN reqLog \o <<Req("profile", "", ""), Req("profile", "", "")>>
                        ELSE Append(reqLog, Req("profile", "", ""))
             IN  IF r.net
                 THEN ScrapeRaises("ConnectionError") /\ reqLog' = got
                      /\ UNCHANGED <<csrf_token, idx, candidates>>
                 ELSE IF r.status >= 400
                 THEN ScrapeRaises("HTTPError") /\ reqLog' = got
                      /\ UNCHANGED <<csrf_token, idx, candidates>>
                 ELSE IF prep.exc # None
                 THEN ScrapeRaises(prep.exc) /\ reqLog' = got
                      /\ UNCHANGED <<csrf_token, idx, candidates>>
                 ELSE /\ reqLog' = Append(got, Req("semesters_prep", "", ""))
                      /\ csrf_token' = None
                      /\ IF NeedsDiscovery(batch_class_ids)
                         THEN pc' = "scrape_discover" /\ UNCHANGED <<idx, candidates>>
                         ELSE /\ candidates' = _normalize_batch_ids(batch_class_ids)
                              /\ idx' = 1
                              /\ pc' = "fetch_loop"
                      /\ UNCHANGED scrapeResult
    /\ UNCHANGED <<variant, batch_class_ids, configured, auto_ids, pr_suggestion, cookies,
                   loginFinal, loginResult, discoverySeen, fetched, lastWhy, callResult, httpResponse, request, r0,
                   csrfVars, fnVars, srvVars>>

\* scrape_attendance_data (src/main.py), lines 683-714: discovery when the
\* batch ids are still unset
ScrapeDiscover ==
    /\ variant = "main" /\ pc = "scrape_discover"
    /\ \E d \in DiscoveryResponses :
          LET res == _fetch_semester_batch_ids(d)
          IN  /\ reqLog' = Append(reqLog, Req("semesters", "", ""))
              /\ discoverySeen' = Append(discoverySeen, res)
              /\ IF res.t = "None"
                 THEN \* `ids, texts = None`
                      /\ ScrapeRaises("TypeError")
                      /\ UNCHANGED <<auto_ids, batch_class_ids, pr_suggestion, idx, candidates>>
                 ELSE IF PyTruthy(res.ids)
                 THEN /\ auto_ids' = res.ids
                      /\ batch_class_ids' = AdoptDiscovered(res.ids.v)
                      /\ pr_suggestion' = TRUE
                      /\ candidates' = _normalize_batch_ids(AdoptDiscovered(res.ids.v))
                      /\ idx' = 1
                      /\ pc' = "fetch_loop"
                      /\ UNCHANGED scrapeResult
                 ELSE /\ ScrapeReturns(PyNone)
                      /\ UNCHANGED <<auto_ids, batch_class_ids, pr_suggestion, idx, candidates>>
    /\ UNCHANGED <<variant, configured, cookies, csrf_token, loginFinal, loginResult,
                   fetched, lastWhy, callResult, httpResponse, request, r0,
                   csrfVars, fnVars, srvVars>>

\* One turn of the candidate loop of scrape_attendance_data: the report
\* request for candidates[idx] (and its https retry in src/main.py)
FetchBatch ==
    /\ pc = "fetch_loop" /\ idx <= Len(candidates)
    /\ \E resp \in ReportResponses, alt \in AltResponses \cup {NoAlt} :
          /\ (alt # NoAlt) <=> (variant = "main" /\ ~resp.net /\ resp.status # 200 /\ resp.http)
          /\ LET batch_id == candidates[idx]
                 attendance_data == _fetch_attendance_for_batch(variant, resp, alt)
                 posted == Append(reqLog, Req("report", batch_id, ""))
             IN  /\ reqLog' = IF alt # NoAlt
                              THEN Append(posted, Req("report_alt", batch_id, ""))
                              ELSE posted
                 /\ fetched' = Append(fetched, [batch |-> batch_id,
                                                val |-> attendance_data.val])
                 /\ lastWhy' = attendance_data.why
                 /\ IF attendance_data.exc # None
                    THEN ScrapeRaises(attendance_data.exc) /\ UNCHANGED idx
                    ELSE IF ReturnsEarly(attendance_data.val)
                    THEN ScrapeReturns(attendance_data.val) /\ UNCHANGED idx
                    ELSE idx' = idx + 1 /\ UNCHANGED <<pc, scrapeResult>>
    /\ UNCHANGED <<variant, batch_class_ids, configured, auto_ids, pr_suggestion, cookies,
                   csrf_token, loginFinal, loginResult, discoverySeen, candidates, callResult, httpResponse, request, r0,
                   csrfVars, fnVars, srvVars>>

\* The loop ran out of candidates: `return None`
ScrapeExhausted ==
    /\ pc = "fetch_loop" /\ idx > Len(candidates)
    /\ ScrapeReturns(PyNone)
    /\ UNCHANGED <<variant, batch_class_ids, configured, auto_ids, pr_suggestion, cookies,
                   csrf_token, idx, reqLog, loginFinal, loginResult, discoverySeen,
                   candidates, fetched, lastWhy, callResult, httpResponse, request, r0,
                   csrfVars, fnVars, srvVars>>

\* what can go wrong with session.get(logout_url)
LogoutFailures == {"ConnectionError"}

\* Altered: logout() without its except clause
LogoutUncaught(e) == IF e = None THEN Return(None) ELSE Raise(e)

\* logout(): a requests.RequestException is logged, not raised
logout(e) ==
    IF e = None THEN Return(None)
    ELSE IF e \in RequestExceptions THEN Return(None)
    ELSE Raise(e)


\* fetch_student_attendance, try block: login()'s exception, else what
\* scrape_attendance_data returned or raised
TryOutcome(login_res, scrape_res) ==
    IF login_res.type # "ok" THEN CallRaised(login_res.type)
    ELSE IF scrape_res.t = "raised" THEN CallRaised(scrape_res.exc)
    ELSE Returned(scrape_res.val)

\* try/finally: an exception leaving the finally block replaces the outcome
\* of the try block
FinallyOutcome(try_outcome, finally_res) ==
    IF finally_res.exc # None THEN CallRaised(finally_res.exc) ELSE try_outcome

\* logout(), in the finally block of fetch_student_attendance
Logout ==
    /\ pc = "logout"
    /\ \E e \in {None} \cup LogoutFailures :
          /\ reqLog' = Append(reqLog, Req("logout", "", IF e = None THEN "ok" ELSE "failed"))
          /\ callResult' = FinallyOutcome(TryOutcome(loginResult, scrapeResult), logout(e))
    /\ pc' = "done"
    /\ UNCHANGED <<variant, batch_class_ids, configured, auto_ids, pr_suggestion, cookies,
                   csrf_token, idx, loginFinal, loginResult, scrapeResult, discoverySeen,
                   candidates, fetched, lastWhy, httpResponse, request, r0,
                   csrfVars, fnVars, srvVars>>

\* login() (src/backend/engine/fetch.py), lines 64-70
EngineLoginGet ==
    /\ variant = "engine" /\ pc = "login_get"
    /\ \E response \in LandingResponses :
          /\ reqLog' = Append(reqLog, Req("landing", "", ""))
          /\ LET token == EngineExtractCsrf(response.body)
             IN  IF response.net
                 THEN LoginRaises("ConnectionError") /\ UNCHANGED csrf_token
                 ELSE IF response.status >= 400
                 THEN LoginRaises("HTTPError") /\ UNCHANGED csrf_token
                 ELSE IF token.exc # None
                 THEN LoginRaises(token.exc) /\ UNCHANGED csrf_token
                 ELSE /\ csrf_token' = token.val
                      /\ pc' = "login_post"
                      /\ UNCHANGED loginResult
    /\ UNCHANGED <<variant, batch_class_ids, configured, auto_ids, pr_suggestion, cookies,
                   idx, loginFinal, scrapeResult, discoverySeen, candidates, fetched, lastWhy,
                   callResult, httpResponse, request, r0,
                   csrfVars, fnVars, srvVars>>

\* login() (src/backend/engine/fetch.py), lines 72-81: the POST and
\* raise_for_status
EngineLoginPost ==
    /\ variant = "engine" /\ pc = "login_post"
    /\ \E login_response \in PostResponses :
          /\ reqLog' = Append(reqLog, Req("login_post", "", csrf_token))
          /\ IF login_response.net
             THEN LoginRaises("ConnectionError") /\ UNCHANGED loginFinal
             ELSE IF login_response.status >= 400
             THEN LoginRaises("HTTPError") /\ loginFinal' = Final(login_response)
             ELSE /\ loginFinal' = Final(login_response)
                  /\ pc' = "validate"
                  /\ UNCHANGED loginResult
    /\ UNCHANGED <<variant, batch_class_ids, configured, auto_ids, pr_suggestion, cookies,
                   csrf_token, idx, scrapeResult, discoverySeen, candidates, fetched, lastWhy,
                   callResult, httpResponse, request, r0,
                   csrfVars, fnVars, srvVars>>

\* _validate_authentication (src/backend/engine/fetch.py), called by login()
EngineValidate ==
    /\ variant = "engine" /\ pc = "validate"
    /\ \E profile_response \in ValidateResponses :
          /\ reqLog' = Append(reqLog, Req("validate", "", ""))
          /\ IF profile_response.net
             THEN LoginRaises("AuthenticationError")
             ELSE IF profile_response.status \in {301, 302} /\ profile_response.location
             THEN LoginRaises("AuthenticationError")
             ELSE loginResult' = LoginOk /\ pc' = AfterLogin(LoginOk)
    /\ UNCHANGED <<variant, batch_class_ids, configured, auto_ids, pr_suggestion, cookies,
                   csrf_token, idx, loginFinal, scrapeResult, discoverySeen, candidates,
                   fetched, lastWhy, callResult, httpResponse, request, r0,
                   csrfVars, fnVars, srvVars>>

\* scrape_attendance_data (src/backend/engine/fetch.py), lines 125-133
EngineScrapePrepare ==
    /\ variant = "engine" /\ pc = "scrape_prepare"
    /\ \E dashboard_response \in ProfileResponses :
          /\ reqLog' = Append(reqLog, Req("profile", "", ""))
          /\ LET token == EngineExtractCsrf(dashboard_response.body)
             IN  IF dashboard_response.net
                 THEN ScrapeRaises("ConnectionError") /\ UNCHANGED <<csrf_token, idx, candidates>>
                 ELSE IF dashboard_response.status >= 400
                 THEN ScrapeRaises("HTTPError") /\ UNCHANGED <<csrf_token, idx, candidates>>
                 ELSE IF token.exc # None
                 THEN ScrapeRaises(token.exc) /\ UNCHANGED <<csrf_token, idx, candidates>>
                 ELSE /\ csrf_token' = None
                      /\ candidates' = _normalize_batch_ids(batch_class_ids)
                      /\ idx' = 1
                      /\ pc' = "fetch_loop"
                      /\ UNCHANGED scrapeResult
    /\ UNCHANGED <<variant, batch_class_ids, configured, auto_ids, pr_suggestion, cookies,
                   loginFinal, loginResult, discoverySeen, fetched, lastWhy, callResult, httpResponse, request, r0,
                   csrfVars, fnVars, srvVars>>

----------------------------------------------------------------------------
(* POST /attendance: the response built from the outcome of the call *)

\* the dict process_attendance_task (src/main.py) returns: its "status" key,
\* the batch ids written into its "redirect" URL, whether it has a
\* "suggestions" key, and its "discovered_batch_ids"
Result(status, redirect, suggestions, discovered_batch_ids) ==
    [status |-> status, redirect |-> redirect, suggestions |-> suggestions,
     discovered_batch_ids |-> discovered_batch_ids]

NoResult == Result("", PyNone, FALSE, PyNone)

\* process_attendance_task (src/main.py) from the return of
\* fetch_student_attendance on; its except clauses re-raise
process_attendance_task(call, _pr_suggestion, _auto_discovered_batch_ids) ==
    IF call.t = "raised" THEN [exc |-> call.exc, val |-> NoResult]
    ELSE IF ~PyTruthy(call.val)
    THEN [exc |-> "AttendanceScrapingError", val |-> NoResult]
    ELSE IF _pr_suggestion /\ PyTruthy(_auto_discovered_batch_ids)
    THEN [exc |-> None,
          val |-> Result("", _auto_discovered_batch_ids, FALSE, PyNone)]
    ELSE [exc |-> None,
          val |-> Result("complete", PyNone, _pr_suggestion,
                         IF _pr_suggestion /\ PyTruthy(_auto_discovered_batch_ids)
                         THEN _auto_discovered_batch_ids ELSE PyNone)]

\* the except clauses of get_attendance, the same list in both files; an
\* HTTPException raised inside the try block falls to `except Exception`
ExceptStatus(e) ==
    CASE e = "ConfigurationError" -> 500
      [] e = "AuthenticationError" -> 401
      [] e = "AttendanceScrapingError" -> 500
      [] OTHER -> 500

Response(status, result) == [status |-> status, result |-> result]

NoResponse == Response(0, NoResult)

\* get_attendance (src/main.py)
MainGetAttendance(call, _pr_suggestion, _auto_discovered_batch_ids) ==
    LET result == process_attendance_task(call, _pr_suggestion, _auto_discovered_batch_ids)
    IN  IF result.exc # None THEN Response(ExceptStatus(result.exc), NoResult)
        ELSE Response(200, result.val)

\* get_attendance (src/backend/api/main.py)
EngineGetAttendance(call) ==
    IF call.t = "raised" THEN Response(ExceptStatus(call.exc), NoResult)
    ELSE IF call.val.t = "None" THEN Response(ExceptStatus("HTTPException"), NoResult)
    ELSE Response(200, Result("complete", PyNone, FALSE, PyNone))

\* POST /attendance without a username or a password: get_attendance
\* (src/main.py) raises HTTPException(400) inside its try block; the request
\* model of src/backend/api/main.py fails validation (422)
RejectRequest ==
    /\ pc = "new" /\ ~HasCredentials(request)
    /\ httpResponse' = IF variant = "main"
                       THEN Response(ExceptStatus("HTTPException"), NoResult)
                       ELSE Response(422, NoResult)
    /\ pc' = "rejected"
    /\ UNCHANGED <<variant, batch_class_ids, configured, auto_ids, pr_suggestion,
                   cookies, csrf_token, idx, reqLog, loginFinal, loginResult,
                   scrapeResult, discoverySeen, candidates, fetched, lastWhy,
                   callResult, request, r0, csrfVars, fnVars, srvVars>>

\* POST /attendance answers once fetch_student_attendance has ended
GetAttendance ==
    /\ pc = "done" /\ httpResponse.status = 0
    /\ httpResponse' = IF variant = "main"
                       THEN MainGetAttendance(callResult, pr_suggestion, auto_ids)
                       ELSE EngineGetAttendance(callResult)
    /\ UNCHANGED <<variant, pc, batch_class_ids, configured, auto_ids, pr_suggestion,
                   cookies, csrf_token, idx, reqLog, loginFinal, loginResult,
                   scrapeResult, discoverySeen, candidates, fetched, lastWhy,
                   callResult, request, r0, csrfVars, fnVars, srvVars>>

ScraperIdle ==
    /\ variant = "main" /\ pc = "new"
    /\ batch_class_ids = PyNone /\ configured = PyNone /\ auto_ids = PyNone
    /\ pr_suggestion = FALSE /\ cookies = EmptyJar /\ csrf_token = None
    /\ idx = 0 /\ reqLog = <<>> /\ loginFinal = Final(NoResp) /\ loginResult = NotYet
    /\ scrapeResult = NotCalled /\ discoverySeen = <<>> /\ candidates = <<>>
    /\ fetched = <<>> /\ lastWhy = "" /\ callResult = Running
    /\ httpResponse = NoResponse /\ request = NoRequest /\ r0 = NoLanding

CsrfIdle == csrfBody = <<>> /\ csrfOut = Pending

RequestIds == {"r1", "r2"}

SrvIdle ==
    /\ request_store = <<>>
    /\ active_connections = {}
    /\ wsPc = [c \in RequestIds |-> "idle"]
    /\ open = RequestIds
    /\ sent = [c \in RequestIds |-> <<>>]
    /\ taskPc = [r \in RequestIds |-> "none"]
    /\ handlers = {}
    /\ handlerLogs = [r \in RequestIds |-> <<>>]
    /\ broadcasts = [r \in RequestIds |-> <<>>]
    /\ now = 0

FmtIdle ==
    /\ fmtVariant = "main" /\ tableRows = <<>>
    /\ parserOut = NoValue /\ formatterOut = NoValue

BunkIdle ==
    /\ bunkArgs = [total_classes |-> 0, attended_classes |-> 0, threshold |-> 0]
    /\ bunkOut = NoValue /\ maxBunkable = 0 /\ whileTest = <<>>

FnIdle == FmtIdle /\ BunkIdle

Init ==
    /\ variant \in {"main", "engine"}
    /\ pc = "new"
    /\ batch_class_ids = PyNone /\ configured = PyNone /\ auto_ids = PyNone
    /\ pr_suggestion = FALSE /\ cookies = EmptyJar /\ csrf_token = None
    /\ idx = 0 /\ reqLog = <<>> /\ loginFinal = Final(NoResp) /\ loginResult = NotYet
    /\ scrapeResult = NotCalled /\ discoverySeen = <<>> /\ candidates = <<>>
    /\ fetched = <<>> /\ lastWhy = "" /\ callResult = Running
    /\ httpResponse = NoResponse /\ request \in RequestsOf(variant)
    /\ r0 = NoLanding
    /\ CsrfIdle
    /\ SrvIdle
    /\ FnIdle

Next ==
    \/ Construct \/ EngineConstruct
    \/ LoginGet \/ LoginPost \/ LoginDiscover
    \/ EngineLoginGet \/ EngineLoginPost \/ EngineValidate
    \/ ScrapePrepare \/ ScrapeDiscover \/ EngineScrapePrepare
    \/ FetchBatch \/ ScrapeExhausted
    \/ Logout
    \/ GetAttendance \/ RejectRequest

Spec == Init /\ [][Next]_vars

----------------------------------------------------------------------------
(* SpecCsrf: _extract_csrf_token applied to every bounded body *)
ExtractCsrf ==
    /\ csrfOut = Pending
    /\ csrfOut' = _extract_csrf_token(csrfBody)
    /\ UNCHANGED <<csrfBody, scraperVars, srvVars, fnVars>>

InitCsrf ==
    /\ csrfBody \in Bodies
    /\ csrfOut = Pending
    /\ ScraperIdle
    /\ SrvIdle
    /\ FnIdle

NextCsrf == ExtractCsrf

SpecCsrf == InitCsrf /\ [][NextCsrf]_vars

----------------------------------------------------------------------------
(* The websocket server: src/backend/api/main.py, src/backend/engine/stream.py *)

REQUEST_TIMEOUT_SECONDS == 5

Dash == "-"

\* stream.py RequestContextFilter.filter: the request id put on a record
\* logged while req_id is the current request id
RequestContextFilter(req_id) == IF Truthy(req_id) THEN req_id ELSE Dash

\* a log record: who logged it, the request id injected by the context
\* filter, and its message
Record(ctx, msg) == [by |-> ctx, request_id |-> RequestContextFilter(ctx), msg |-> msg]

\* the entry _handle_authentication puts in a new context; it is no log record
InitialEntry == [by |-> None, request_id |-> None, msg |-> "Request received"]

RequestIDFilterOpen(self_request_id, record_req) == TRUE

\* stream.py RequestIDFilter.filter
RequestIDFilter(self_request_id, record_req) ==
    IF self_request_id = None THEN FALSE ELSE record_req = self_request_id

\* the part of the server's state a log statement can change
Relay(store, logs, tasks) == [store |-> store, logs |-> logs, tasks |-> tasks]
RelayNow == Relay(request_store, handlerLogs, broadcasts)

\* Altered: emit schedules a forwarding task whether or not a connection is
\* registered
EmitAlwaysSchedules(B, h, record) ==
    LET self_logs == Append(B.logs[h], record)
    IN  Relay(IF h \in DOMAIN B.store
                  THEN [B.store EXCEPT ![h].all_logs = self_logs]
                  ELSE B.store,
              [B.logs EXCEPT ![h] = self_logs],
              [B.tasks EXCEPT ![h] = Append(@, record)])

\* stream.py RequestLogHandler.emit, for the handler of request h
emit(B, h, record) ==
    LET self_logs == Append(B.logs[h], record)
        in_store == h \in DOMAIN B.store
    IN  Relay(IF in_store
                  THEN [B.store EXCEPT ![h].all_logs = self_logs]
                  ELSE B.store,
              [B.logs EXCEPT ![h] = self_logs],
              IF in_store /\ h \in active_connections
                  THEN [B.tasks EXCEPT ![h] = Append(@, record)]
                  ELSE B.tasks)

HandlerOrder == <<"r1", "r2">>

\* logging.Logger.callHandlers over the attached RequestLogHandlers: a
\* handler emits the record when its RequestIDFilter lets it pass
RECURSIVE callHandlers(_, _, _, _)
callHandlers(B, attached, record, k) ==
    IF k > Len(HandlerOrder) THEN B
    ELSE LET h == HandlerOrder[k]
         IN  callHandlers(IF h \in attached /\ RequestIDFilter(h, record.request_id)
                              THEN emit(B, h, record)
                              ELSE B,
                          attached, record, k + 1)

\* app_logger.info / warning / error called while ctx is the current request id
Log(B, attached, ctx, msg) == callHandlers(B, attached, Record(ctx, msg), 1)

ExpiredAtWindow(current_time, request_timestamp) ==
    current_time - request_timestamp >= REQUEST_TIMEOUT_SECONDS

\* api/main.py line 229
Expired(current_time, request_timestamp) ==
    current_time - request_timestamp > REQUEST_TIMEOUT_SECONDS

\* api/main.py _cleanup_old_requests: the table after the sweep
_cleanup_old_requests(store, current_time) ==
    LET expired_requests == {r \in DOMAIN store : Expired(current_time, store[r].timestamp)}
    IN  [r \in DOMAIN store \ expired_requests |-> store[r]]

\* the context _handle_authentication stores: it holds the password of the
\* auth message (None stands for a context without the key)
NewContext(ts) ==
    [status |-> "processing", detail |-> "", all_logs |-> <<InitialEntry>>,
     password |-> "password", timestamp |-> ts]

Msg(type, data) == [type |-> type, data |-> data]

\* websocket.send_json: the message reaches a client that has not closed
Transmit(c, m) == IF c \in open THEN [sent EXCEPT ![c] = Append(@, m)] ELSE sent
Transmitted(c, m) == [sent EXCEPT ![c] = Append(@, m)]

\* the event loop is not inside a synchronous fetch_student_attendance
LoopFree == \A r \in RequestIds : taskPc[r] # "scraping"

FirstMessages == {"auth", "auth_missing", "other"}

\* Altered: the connection is registered before the first message is looked at
WsFirstMessageRegistersFirst(c) ==
    /\ wsPc[c] = "idle" /\ c \in open /\ LoopFree
    /\ \E first \in FirstMessages, stays \in BOOLEAN :
          /\ active_connections' = active_connections \cup {c}
          /\ IF first = "auth"
             THEN /\ request_store' = [r \in DOMAIN request_store \cup {c} |->
                                         IF r = c THEN NewContext(now) ELSE request_store[r]]
                  /\ open' = IF stays THEN open ELSE open \ {c}
                  /\ sent' = IF stays THEN Transmitted(c, Msg("auth_success", c)) ELSE sent
                  /\ wsPc' = [wsPc EXCEPT ![c] = IF stays THEN "auth_sent" ELSE "auth_failed"]
             ELSE /\ stays
                  /\ sent' = Transmitted(c, Msg("error", first))
                  /\ wsPc' = [wsPc EXCEPT ![c] = "closed"]
                  /\ UNCHANGED <<request_store, open>>
    /\ UNCHANGED <<taskPc, handlers, handlerLogs, broadcasts, now,
                   csrfVars, fnVars, scraperVars>>

\* websocket_attendance up to its first suspension after the first message
WsFirstMessage(c) ==
    /\ wsPc[c] = "idle" /\ c \in open /\ LoopFree
    /\ \E first \in FirstMessages, stays \in BOOLEAN :
          IF first = "auth"
          THEN \* _handle_authentication: register, store, then send auth_success
               \* to a client that is still there, or that has just gone
               /\ active_connections' = active_connections \cup {c}
               /\ request_store' = [r \in DOMAIN request_store \cup {c} |->
                                       IF r = c THEN NewContext(now) ELSE request_store[r]]
               /\ open' = IF stays THEN open ELSE open \ {c}
               /\ sent' = IF stays THEN Transmitted(c, Msg("auth_success", c)) ELSE sent
               /\ wsPc' = [wsPc EXCEPT ![c] = IF stays THEN "auth_sent" ELSE "auth_failed"]
          ELSE /\ stays
               /\ sent' = Transmitted(c, Msg("error", first))
               /\ wsPc' = [wsPc EXCEPT ![c] = "closed"]
               /\ UNCHANGED <<active_connections, request_store, open>>
    /\ UNCHANGED <<taskPc, handlers, handlerLogs, broadcasts, now,
                   csrfVars, fnVars, scraperVars>>

\* the auth_success send returned: the task is created and the keepalive
\* loop entered; or it raised, and the handler ends with request_id unset
WsAuthSent(c) ==
    /\ wsPc[c] \in {"auth_sent", "auth_failed"} /\ LoopFree
    /\ IF wsPc[c] = "auth_sent"
       THEN LET B == Log(RelayNow, handlers, None, "ws auth success")
            IN  /\ request_store' = B.store
                /\ handlerLogs' = B.logs
                /\ broadcasts' = B.tasks
                /\ taskPc' = [taskPc EXCEPT ![c] = "ready"]
                /\ wsPc' = [wsPc EXCEPT ![c] = "maintain"]
       ELSE LET B == Log(RelayNow, handlers, None, "ws error")
            IN  /\ request_store' = B.store
                /\ handlerLogs' = B.logs
                /\ broadcasts' = B.tasks
                /\ wsPc' = [wsPc EXCEPT ![c] = "closed"]
                /\ UNCHANGED taskPc
    /\ UNCHANGED <<active_connections, open, sent, handlers, now,
                   csrfVars, fnVars, scraperVars>>

\* the client closes its end
ClientClose(c) ==
    /\ c \in open /\ wsPc[c] \in {"auth_sent", "maintain"}
    /\ open' = open \ {c}
    /\ UNCHANGED <<request_store, active_connections, wsPc, sent, taskPc, handlers,
                   handlerLogs, broadcasts, now, csrfVars, fnVars, scraperVars>>

\* Altered: the finally block deletes the entry without looking for it
WsFinallyUnguarded(connections, request_id) ==
    IF request_id \in connections
    THEN [connections |-> connections \ {request_id}, exc |-> None]
    ELSE [connections |-> connections, exc |-> "KeyError"]

\* api/main.py lines 280-284, the finally block of websocket_attendance once
\* request_id is set: the registry it leaves and the exception it ends with
WsFinally(connections, request_id) ==
    IF request_id \in connections
    THEN [connections |-> connections \ {request_id}, exc |-> None]
    ELSE [connections |-> connections, exc |-> None]

\* _maintain_websocket_connection sees the disconnect; websocket_attendance's
\* finally removes the connection
WsDisconnect(c) ==
    /\ wsPc[c] = "maintain" /\ c \notin open /\ LoopFree
    /\ LET end == WsFinally(active_connections, c)
       IN  /\ active_connections' = end.connections
           /\ wsPc' = [wsPc EXCEPT ![c] = IF end.exc = None THEN "closed" ELSE "raised"]
    /\ UNCHANGED <<request_store, open, sent, taskPc, handlers, handlerLogs, broadcasts,
                   now, csrfVars, fnVars, scraperVars>>

\* Altered: a failed send_json in broadcast_log leaves the registry alone
BroadcastLogKeepsEntry(h) ==
    /\ broadcasts[h] # <<>> /\ LoopFree
    /\ broadcasts' = [broadcasts EXCEPT ![h] = Tail(@)]
    /\ IF h \in active_connections
       THEN sent' = Transmit(h, Msg("log", Head(broadcasts[h])))
       ELSE UNCHANGED sent
    /\ UNCHANGED <<request_store, active_connections, wsPc, open, taskPc, handlers,
                   handlerLogs, now, csrfVars, fnVars, scraperVars>>

\* Altered: the broadcast task created last runs first
BroadcastLogNewestFirst(h) ==
    /\ broadcasts[h] # <<>> /\ LoopFree
    /\ broadcasts' = [broadcasts EXCEPT ![h] = SubSeq(@, 1, Len(@) - 1)]
    /\ IF h \in active_connections
       THEN /\ sent' = Transmit(h, Msg("log", broadcasts[h][Len(broadcasts[h])]))
            /\ active_connections' = IF h \in open THEN active_connections
                                     ELSE active_connections \ {h}
       ELSE UNCHANGED <<sent, active_connections>>
    /\ UNCHANGED <<request_store, wsPc, open, taskPc, handlers, handlerLogs, now,
                   csrfVars, fnVars, scraperVars>>

\* stream.py broadcast_log: the oldest broadcast task of request h runs
BroadcastLog(h) ==
    /\ broadcasts[h] # <<>> /\ LoopFree
    /\ broadcasts' = [broadcasts EXCEPT ![h] = Tail(@)]
    /\ IF h \in active_connections
       THEN /\ sent' = Transmit(h, Msg("log", Head(broadcasts[h])))
            /\ active_connections' = IF h \in open THEN active_connections
                                     ELSE active_connections \ {h}
       ELSE UNCHANGED <<sent, active_connections>>
    /\ UNCHANGED <<request_store, wsPc, open, taskPc, handlers, handlerLogs, now,
                   csrfVars, fnVars, scraperVars>>

\* how the synchronous part of process_attendance_task can end
Outcomes == {"rows", "no_data", "AuthenticationError", "ConfigurationError"}

\* error_msg of the except branch the outcome is caught in (api/main.py
\* lines 136-144), without the text of the exception
ErrorMsg(outcome) ==
    IF outcome \in {"no_data", "AuthenticationError", "not_found"}
    THEN "Attendance processing error"
    ELSE "Unexpected error during processing"

UpdateKeepsStatus(store, request_id, error_msg) ==
    IF request_id \in DOMAIN store
    THEN [store EXCEPT ![request_id].detail = error_msg]
    ELSE store

\* api/main.py _handle_processing_error: the update of the request store
UpdateError(store, request_id, error_msg) ==
    IF request_id \in DOMAIN store
    THEN [store EXCEPT ![request_id].status = "error", ![request_id].detail = error_msg]
    ELSE store

\* api/main.py lines 112-119
UpdateComplete(store, request_id) == [store EXCEPT ![request_id].status = "complete"]

\* process_attendance_task up to the call of send_json: from its start when
\* the request is not in the store, else from the return of
\* fetch_student_attendance
RunTask(r, outcome) ==
    LET attached == handlers \cup {r}
        B0 == RelayNow
    IN  IF r \notin DOMAIN request_store
        THEN LET B1 == Log(B0, attached, r, ErrorMsg("not_found"))
             IN  [B |-> Relay(UpdateError(B1.store, r, ErrorMsg("not_found")), B1.logs, B1.tasks),
                  path |-> "error"]
        ELSE LET B1 == B0
             IN  IF outcome = "rows"
                 THEN LET B3 == Log(B1, attached, r, "Generating attendance visualization")
                      IN  [B |-> Relay(UpdateComplete(B3.store, r), B3.logs, B3.tasks),
                           path |-> "result"]
                 ELSE LET B3 == Log(B1, attached, r, ErrorMsg(outcome))
                      IN  [B |-> Relay(UpdateError(B3.store, r, ErrorMsg(outcome)), B3.logs, B3.tasks),
                           path |-> "error"]

\* process_attendance_task after _send_websocket_message: the warning of a
\* failed send, the closing log line of the success path
EndTask(B, attached, r, path, failed) ==
    LET B1 == IF failed THEN Log(B, attached, r, "Failed to send WebSocket message") ELSE B
    IN  IF path = "result"
        THEN Log(B1, attached, r, "Attendance processing completed successfully")
        ELSE B1

\* the finally block: removeHandler, then the sweep
Finally(B, r) ==
    /\ handlers' = handlers \ {r}
    /\ request_store' = _cleanup_old_requests(B.store, now)
    /\ handlerLogs' = B.logs
    /\ broadcasts' = B.tasks
    /\ taskPc' = [taskPc EXCEPT ![r] = "done"]

\* process_attendance_task from the end of its synchronous part to its first
\* suspension: the send of the result or of the error when a connection is
\* registered, else to its end
SendOrEnd(r, run) ==
    IF r \in active_connections
    THEN /\ sent' = Transmit(r, Msg(run.path, r))
         /\ request_store' = run.B.store
         /\ handlerLogs' = run.B.logs
         /\ broadcasts' = run.B.tasks
         /\ handlers' = handlers \cup {r}
         /\ taskPc' = [taskPc EXCEPT ![r] =
                          IF r \in open THEN run.path ELSE run.path \o "_failed"]
    ELSE /\ Finally(EndTask(run.B, handlers \cup {r}, r, run.path, FALSE), r)
         /\ UNCHANGED sent

\* process_attendance_task starts: with the request in the store it logs its
\* first line and calls fetch_student_attendance, a synchronous call made on
\* the event loop's thread
TaskStart(r) ==
    /\ taskPc[r] = "ready" /\ LoopFree
    /\ IF r \notin DOMAIN request_store
       THEN SendOrEnd(r, RunTask(r, "not_found"))
       ELSE LET B == Log(RelayNow, handlers \cup {r}, r, "Starting attendance processing")
            IN  /\ request_store' = B.store
                /\ handlerLogs' = B.logs
                /\ broadcasts' = B.tasks
                /\ handlers' = handlers \cup {r}
                /\ taskPc' = [taskPc EXCEPT ![r] = "scraping"]
                /\ UNCHANGED sent
    /\ UNCHANGED <<active_connections, wsPc, open, now, csrfVars, fnVars, scraperVars>>

\* fetch_student_attendance returned or raised: the task goes on to its
\* first suspension
TaskScraped(r) ==
    /\ taskPc[r] = "scraping"
    /\ \E outcome \in Outcomes : SendOrEnd(r, RunTask(r, outcome))
    /\ UNCHANGED <<active_connections, wsPc, open, now, csrfVars, fnVars, scraperVars>>

\* the send returned or raised: the rest of process_attendance_task
TaskFinish(r) ==
    /\ taskPc[r] \in {"result", "error", "result_failed", "error_failed"} /\ LoopFree
    /\ LET path == IF taskPc[r] \in {"result", "result_failed"} THEN "result" ELSE "error"
           failed == taskPc[r] \in {"result_failed", "error_failed"}
       IN  Finally(EndTask(RelayNow, handlers, r, path, failed), r)
    /\ UNCHANGED <<active_connections, wsPc, open, sent, now, csrfVars, fnVars, scraperVars>>

\* time passes while some request context is in the table
Tick ==
    /\ now < MaxTime /\ DOMAIN request_store # {}
    /\ now' = now + 1
    /\ UNCHANGED <<request_store, active_connections, wsPc, open, sent, taskPc, handlers,
                   handlerLogs, broadcasts, csrfVars, fnVars, scraperVars>>

\* the pings one keepalive loop is followed through
MaxPings == 1

IsPing(m) == m.type = "ping"

\* _maintain_websocket_connection: no message within WEBSOCKET_PING_TIMEOUT,
\* wait_for raises TimeoutError and the ping is written; a write that fails
\* (the client is gone and no disconnect was received) raises
WsPing(c) ==
    /\ wsPc[c] = "maintain" /\ LoopFree
    /\ IF c \in open
       THEN /\ Len(SelectSeq(sent[c], IsPing)) < MaxPings
            /\ sent' = Transmitted(c, Msg("ping", ""))
            /\ UNCHANGED wsPc
       ELSE /\ wsPc' = [wsPc EXCEPT ![c] = "ping_failed"]
            /\ UNCHANGED sent
    /\ UNCHANGED <<request_store, active_connections, open, taskPc, handlers, handlerLogs,
                   broadcasts, now, csrfVars, fnVars, scraperVars>>

\* Altered: a failed ping is ignored and the keepalive loop goes on
WsPingFailedKeepsLooping(c) ==
    /\ wsPc[c] = "ping_failed" /\ LoopFree
    /\ wsPc' = [wsPc EXCEPT ![c] = "maintain"]
    /\ UNCHANGED <<request_store, active_connections, open, sent, taskPc, handlers,
                   handlerLogs, broadcasts, now, csrfVars, fnVars, scraperVars>>

\* `except Exception: break` around the ping, then websocket_attendance's
\* finally removes the connection
WsPingFailed(c) ==
    /\ wsPc[c] = "ping_failed" /\ LoopFree
    /\ LET end == WsFinally(active_connections, c)
       IN  /\ active_connections' = end.connections
           /\ wsPc' = [wsPc EXCEPT ![c] = IF end.exc = None THEN "closed" ELSE "raised"]
    /\ UNCHANGED <<request_store, open, sent, taskPc, handlers, handlerLogs, broadcasts,
                   now, csrfVars, fnVars, scraperVars>>

InitSrv == SrvIdle /\ ScraperIdle /\ CsrfIdle /\ FnIdle

NextSrv ==
    \/ \E c \in RequestIds : WsFirstMessage(c)
    \/ \E c \in RequestIds : WsAuthSent(c)
    \/ \E c \in RequestIds : ClientClose(c)
    \/ \E c \in RequestIds : WsDisconnect(c)
    \/ \E h \in RequestIds : BroadcastLog(h)
    \/ \E r \in RequestIds : TaskStart(r)
    \/ \E r \in RequestIds : TaskScraped(r)
    \/ \E r \in RequestIds : TaskFinish(r)
    \/ Tick

SpecSrv == InitSrv /\ [][NextSrv]_vars

\* SpecKeep: the websocket server with the pings of its keepalive loops. The
\* timer of wait_for fires, the event loop resumes a handler that is ready,
\* and a synchronous fetch_student_attendance returns (every portal request
\* has a timeout).
KeepIds == {"r1"}

NextKeep ==
    \/ \E c \in KeepIds : WsFirstMessage(c)
    \/ \E c \in KeepIds : WsAuthSent(c)
    \/ \E c \in KeepIds : ClientClose(c)
    \/ \E c \in KeepIds : WsDisconnect(c)
    \/ \E c \in KeepIds : WsPing(c)
    \/ \E c \in KeepIds : WsPingFailed(c)
    \/ \E h \in KeepIds : BroadcastLog(h)
    \/ \E r \in KeepIds : TaskStart(r)
    \/ \E r \in KeepIds : TaskScraped(r)
    \/ \E r \in KeepIds : TaskFinish(r)
    \/ Tick

SpecKeep ==
    /\ InitSrv /\ [][NextKeep]_vars
    /\ \A c \in KeepIds :
          WF_vars(WsPing(c)) /\ WF_vars(WsPingFailed(c)) /\ WF_vars(TaskScraped(c))

----------------------------------------------------------------------------
(* Python floats (IEEE-754 binary64) as far as calculate_bunkable needs     *)
(* them: a positive value is 2^exp * (m[1] + 0.m[2]m[3]m[4]m[5]), the      *)
(* fraction digits in base 2^13 (52 fraction bits), m[1] = 1 when          *)
(* normalised.                                                             *)

Limb == 2^13

\* carries of a digit sequence moved to the left; the head takes the rest
RECURSIVE Norm(_)
Norm(ds) ==
    IF Len(ds) <= 1 THEN ds
    ELSE LET n == Len(ds)
             front == [SubSeq(ds, 1, n - 1) EXCEPT ![n - 1] = @ + ds[n] \div Limb]
         IN  Append(Norm(front), ds[n] % Limb)

\* a / n brought into [1, 2) by powers of two: (a / n) = 2^exp * (num / den)
RECURSIVE Scale(_, _, _)
Scale(a, n, p) ==
    IF a < n THEN Scale(2 * a, n, p - 1)
    ELSE IF a >= 2 * n THEN Scale(a, 2 * n, p + 1)
    ELSE [num |-> a, den |-> n, exp |-> p]

\* the next k base-2^13 digits of rem / den, and what is left over
RECURSIVE Digits(_, _, _)
Digits(rem, den, k) ==
    IF k = 0 THEN [limbs |-> <<>>, rem |-> rem]
    ELSE LET t == rem * Limb
             rest == Digits(t % den, den, k - 1)
         IN  [limbs |-> <<t \div den>> \o rest.limbs, rem |-> rest.rem]

\* round to nearest, ties to even: is the kept part stepped up
RoundsUp(kept, twiceLeft, whole) ==
    \/ twiceLeft > whole
    \/ twiceLeft = whole /\ kept % 2 = 1

\* `attended_classes / (total_classes + max_bunkable)`: int / int, the
\* quotient correctly rounded to 53 bits (a > 0, n > 0)
TrueDiv(a, n) ==
    LET s == Scale(a, n, 0)
        q == Digits(s.num - s.den, s.den, 4)
        m == <<1>> \o q.limbs
        r == IF RoundsUp(m[5], 2 * q.rem, s.den) THEN Norm([m EXCEPT ![5] = @ + 1]) ELSE m
    IN  IF r[1] = 2 THEN [exp |-> s.exp + 1, m |-> <<1, 0, 0, 0, 0>>]
        ELSE [exp |-> s.exp, m |-> r]

\* `x * 100`: the exact product rounded to 53 bits
Times100(x) ==
    LET P == Norm([i \in 1..5 |-> x.m[i] * 100])
        s == IF P[1] < 128 THEN 6 ELSE 7
        kept == P[5] \div 2^s
        up == RoundsUp(kept, 2 * (P[5] % 2^s), 2^s)
    IN  [exp |-> x.exp,
         m |-> Norm([P EXCEPT ![5] = (kept + (IF up THEN 1 ELSE 0)) * 2^s])]

\* `x >= threshold` for a float x and an int threshold >= 1
FloatGE(x, threshold) ==
    IF x.exp >= 0
    THEN x.m[1] * 2^x.exp + x.m[2] \div 2^(13 - x.exp) >= threshold
    ELSE x.m[1] >= threshold * 2^(0 - x.exp)

\* Altered: `return max_bunkable - 1` without the guard for max_bunkable = 0
RECURSIVE BunkLoopUnguarded(_, _, _, _)
BunkLoopUnguarded(total_classes, attended_classes, threshold, max_bunkable) ==
    IF (IF attended_classes = 0 THEN 0 >= threshold
        ELSE FloatGE(Times100(TrueDiv(attended_classes, total_classes + max_bunkable)),
                     threshold))
    THEN BunkLoopUnguarded(total_classes, attended_classes, threshold, max_bunkable + 1)
    ELSE max_bunkable - 1

\* AttendanceCalculator.calculate_bunkable: the while loop from max_bunkable on
RECURSIVE BunkLoop(_, _, _, _)
BunkLoop(total_classes, attended_classes, threshold, max_bunkable) ==
    IF (IF attended_classes = 0 THEN 0 >= threshold
        ELSE FloatGE(Times100(TrueDiv(attended_classes, total_classes + max_bunkable)),
                     threshold))
    THEN BunkLoop(total_classes, attended_classes, threshold, max_bunkable + 1)
    ELSE IF max_bunkable > 0 THEN max_bunkable - 1 ELSE 0

\* AttendanceCalculator.calculate_bunkable
calculate_bunkable(total_classes, attended_classes, threshold) ==
    IF total_classes = 0 THEN 0
    ELSE BunkLoop(total_classes, attended_classes, threshold, 0)

----------------------------------------------------------------------------
(* Cell texts. A text is a TLA+ string; the functions that look inside a   *)
(* cell (split, int, re.search) work on its characters.                    *)

Chars(s) ==
    CASE s = "" -> <<>>
      [] s = "NA" -> <<"N", "A">>
      [] s = "18/20" -> <<"1", "8", "/", "2", "0">>
      [] s = "1/3" -> <<"1", "/", "3">>
      [] s = "0/0" -> <<"0", "/", "0">>
      [] s = "late" -> <<"l", "a", "t", "e">>
      [] s = "90" -> <<"9", "0">>
      [] s = "33%" -> <<"3", "3", "%">>

\* the value of a decimal digit, -1 for any other character
DigitVal(c) ==
    LET digits == <<"0", "1", "2", "3", "4", "5", "6", "7", "8", "9">>
    IN  IF \E d \in 1..10 : digits[d] = c
        THEN (CHOOSE d \in 1..10 : digits[d] = c) - 1
        ELSE -1

IsDigit(c) == DigitVal(c) >= 0

\* the value of a run of decimal digits
RECURSIVE DecimalValue(_)
DecimalValue(cs) ==
    IF cs = <<>> THEN 0
    ELSE 10 * DecimalValue(SubSeq(cs, 1, Len(cs) - 1)) + DigitVal(cs[Len(cs)])

AllDigits(cs) == cs # <<>> /\ \A i \in 1..Len(cs) : IsDigit(cs[i])

\* int(s) for a stripped text without sign
int(cs) == IF AllDigits(cs) THEN Return(DecimalValue(cs)) ELSE Raise("ValueError")

\* s.split(sep)
RECURSIVE split(_, _)
split(cs, sep) ==
    IF \A i \in 1..Len(cs) : cs[i] # sep THEN <<cs>>
    ELSE LET i == CHOOSE j \in 1..Len(cs) :
                      cs[j] = sep /\ \A k \in 1..(j - 1) : cs[k] # sep
         IN  <<SubSeq(cs, 1, i - 1)>> \o split(SubSeq(cs, i + 1, Len(cs)), sep)

\* re.search(r"(\d+)", s): the first maximal run of digits, <<>> when none
FirstDigitRun(cs) ==
    IF \A i \in 1..Len(cs) : ~IsDigit(cs[i]) THEN <<>>
    ELSE LET from == CHOOSE j \in 1..Len(cs) :
                         IsDigit(cs[j]) /\ \A k \in 1..(j - 1) : ~IsDigit(cs[k])
             to == CHOOSE j \in from..Len(cs) :
                       /\ \A k \in from..j : IsDigit(cs[k])
                       /\ j = Len(cs) \/ ~IsDigit(cs[j + 1])
         IN  SubSeq(cs, from, to)

\* a Python float with two decimals, held in hundredths
PyFloat(hundredths) == [t |-> "float", v |-> <<hundredths>>]

\* round(x, 2) of the quotient num / den (den > 0), in hundredths: to
\* nearest, ties to even
Round2(num, den) ==
    LET q == (num * 100) \div den
        r == (num * 100) % den
    IN  IF RoundsUp(q, 2 * r, den) THEN q + 1 ELSE q

----------------------------------------------------------------------------
(* Formatting: _format_attendance_data *)

\* settings.BUNKABLE_THRESHOLD
BUNKABLE_THRESHOLD == 75

\* scraper.subject_mapping
subject_mapping == [code \in {"CS101"} |-> "Data Structures"]

\* subject_mapping.get(code, code)
Subject(code) == IF code \in DOMAIN subject_mapping THEN subject_mapping[code] ELSE code

\* normalize_int of src/main.py
normalize_int(val) ==
    IF val = None \/ val = "" THEN PyNone
    ELSE IF val = "NA" THEN PyNone
    ELSE LET m == FirstDigitRun(Chars(val))
         IN  IF m # <<>> THEN PyInt(DecimalValue(m)) ELSE PyNone

\* normalize_float of src/main.py (the texts have no decimal point)
normalize_float(val) ==
    IF val = None \/ val = "" THEN PyNone
    ELSE LET v == SelectSeq(Chars(val), LAMBDA c : c # "%")    \* replace("%", "")
         IN  IF v = <<"N", "A">> THEN PyNone
             ELSE IF AllDigits(v) THEN PyFloat(100 * DecimalValue(v))
             ELSE LET m == FirstDigitRun(v)
                  IN  IF m # <<>> THEN PyFloat(100 * DecimalValue(m)) ELSE PyNone

\* what one item adds to formatted_attendance in src/main.py
MainFormatItem(item) ==
    IF Len(item) < 1 THEN <<>>
    ELSE LET subject_code == item[1]
             raw_total == IF Len(item) > 2 THEN item[3] ELSE None
             raw_percentage == IF Len(item) > 3 THEN item[4] ELSE None
         IN  << [subject |-> Subject(subject_code),
                 course_name |-> IF Len(item) > 1 THEN item[2] ELSE None,
                 total_classes |-> normalize_int(raw_total),
                 percentage |-> normalize_float(raw_percentage),
                 raw_data |-> raw_total] >>

\* `round((attended / total) * 100, 2) if total > 0 else 0`
Percentage(attended, total) ==
    IF total > 0 THEN PyFloat(Round2(attended * 100, total)) ELSE PyInt(0)

\* what one item adds to formatted_attendance in src/backend/api
BackendFormatItem(item, threshold) ==
    IF Len(item) < 3 THEN <<>>
    ELSE LET attendance_parts == split(Chars(item[3]), "/")
         IN  IF Len(attendance_parts) # 2 THEN <<>>
             ELSE LET attended == int(attendance_parts[1])
                      total == int(attendance_parts[2])
                  IN  IF attended.exc # None \/ total.exc # None THEN <<>>
                      ELSE << [subject |-> Subject(item[1]),
                               attended |-> PyInt(attended.val),
                               total |-> PyInt(total.val),
                               percentage |-> Percentage(attended.val, total.val),
                               bunkable |-> PyInt(calculate_bunkable(
                                   total.val, attended.val, threshold))] >>

\* _format_attendance_data of either program
RECURSIVE _format_attendance_data(_, _)
_format_attendance_data(v, attendance_data) ==
    IF attendance_data = <<>> THEN <<>>
    ELSE (IF v = "main" THEN MainFormatItem(Head(attendance_data))
          ELSE BackendFormatItem(Head(attendance_data), BUNKABLE_THRESHOLD))
         \o _format_attendance_data(v, Tail(attendance_data))

----------------------------------------------------------------------------
(* SpecFmt: a report table parsed, and the rows formatted for the client *)

MaxRows == 2      \* <tr> rows in a report table

\* the <tr> rows a report table is made of
FmtRows ==
    { <<>>,
      <<"CS101">>,
      <<"CS101", "DS">>,
      <<"", "DS", "18/20">>,
      <<"CS101", "DS", "18/20">>,
      <<"CS101", "DS", "18/20", "90">>,
      <<"CS102", "OS", "NA">>,
      <<"CS102", "OS", "NA", "NA">>,
      <<"CS103", "DB", "0/0">>,
      <<"CS104", "CN", "late">>,
      <<"CS105", "ML", "1/3", "33%">> }

\* response.text handed to _parse_attendance_table
Parse ==
    /\ parserOut.t = "pending"
    /\ parserOut' = _parse_attendance_table(fmtVariant, Page(TRUE, TRUE, tableRows)).val
    /\ UNCHANGED <<fmtVariant, tableRows, formatterOut, bunkVars, csrfVars,
                   scraperVars, srvVars>>

\* `if not attendance_data: raise ...`, else _format_attendance_data
Format ==
    /\ parserOut.t = "list" /\ PyTruthy(parserOut)
    /\ formatterOut.t = "pending"
    /\ formatterOut' = PyList(_format_attendance_data(fmtVariant, parserOut.v))
    /\ UNCHANGED <<fmtVariant, tableRows, parserOut, bunkVars, csrfVars,
                   scraperVars, srvVars>>

InitFmt ==
    /\ fmtVariant \in {"main", "engine"}
    /\ tableRows \in SeqUpTo(FmtRows, MaxRows)
    /\ parserOut = NoValue /\ formatterOut = NoValue
    /\ BunkIdle /\ CsrfIdle /\ ScraperIdle /\ SrvIdle

NextFmt == Parse \/ Format

SpecFmt == InitFmt /\ [][NextFmt]_vars

----------------------------------------------------------------------------
(* SpecBunk: calculate_bunkable applied to bounded arguments *)

MaxTotal == 49       \* total_classes
MaxAttended == 29    \* attended_classes

\* values of settings.BUNKABLE_THRESHOLD (an int read from the environment)
Thresholds == {50, 58, BUNKABLE_THRESHOLD, 100}

Bunk ==
    /\ bunkOut.t = "pending"
    /\ bunkOut' = PyInt(calculate_bunkable(bunkArgs.total_classes,
                                           bunkArgs.attended_classes,
                                           bunkArgs.threshold))
    /\ UNCHANGED <<bunkArgs, maxBunkable, whileTest, fmtVars, csrfVars, scraperVars, srvVars>>

InitBunk ==
    /\ bunkArgs \in [total_classes : 0..MaxTotal,
                      attended_classes : 0..MaxAttended,
                      threshold : Thresholds]
    /\ bunkOut = NoValue /\ maxBunkable = 0 /\ whileTest = <<>>
    /\ FmtIdle /\ CsrfIdle /\ ScraperIdle /\ SrvIdle

NextBunk == Bunk

SpecBunk == InitBunk /\ [][NextBunk]_vars

----------------------------------------------------------------------------
(* SpecLoop: calculate_bunkable turn by turn, thresholds of 0 and below     *)
(* included; every turn of the loop that is due is taken.                   *)

\* the turns of the while loop that are followed, and the arguments
MaxTurns == 16
MaxLoopTotal == 3
MaxLoopAttended == 3

LoopThresholds == {-1, 0, 50, BUNKABLE_THRESHOLD}

\* `(attended_classes / (total_classes + maxBunkable)) * 100 >= threshold`;
\* the product is a float that is never negative
LoopCondition(total_classes, attended_classes, threshold, k) ==
    IF attended_classes = 0 THEN 0 >= threshold
    ELSE IF threshold <= 0 THEN TRUE
    ELSE FloatGE(Times100(TrueDiv(attended_classes, total_classes + k)), threshold)

\* the while condition at the counter values 0..MaxTurns; it depends on the
\* arguments and the counter only, and is worked out when the call starts
WhileTests(args) ==
    [k \in 0..MaxTurns |->
        IF args.total_classes = 0 THEN FALSE
        ELSE LoopCondition(args.total_classes, args.attended_classes, args.threshold, k)]

\* one turn of the while loop: `max_bunkable += 1`
LoopTurn ==
    /\ bunkOut.t = "pending" /\ bunkArgs.total_classes # 0
    /\ whileTest[maxBunkable]
    /\ maxBunkable < MaxTurns
    /\ maxBunkable' = maxBunkable + 1
    /\ UNCHANGED <<bunkArgs, bunkOut, whileTest, fmtVars, csrfVars, scraperVars, srvVars>>

\* the return statements of calculate_bunkable
LoopReturn ==
    /\ bunkOut.t = "pending"
    /\ bunkArgs.total_classes = 0 \/ ~whileTest[maxBunkable]
    /\ bunkOut' = PyInt(IF maxBunkable > 0 THEN maxBunkable - 1 ELSE 0)
    /\ UNCHANGED <<bunkArgs, maxBunkable, whileTest, fmtVars, csrfVars, scraperVars, srvVars>>

InitLoop ==
    /\ bunkArgs \in [total_classes : 0..MaxLoopTotal,
                      attended_classes : 0..MaxLoopAttended,
                      threshold : LoopThresholds]
    /\ bunkOut = NoValue /\ maxBunkable = 0
    /\ whileTest = WhileTests(bunkArgs)
    /\ FmtIdle /\ CsrfIdle /\ ScraperIdle /\ SrvIdle

NextLoop == LoopTurn \/ LoopReturn

SpecLoop == InitLoop /\ [][NextLoop]_vars /\ WF_vars(LoopTurn) /\ WF_vars(LoopReturn)

----------------------------------------------------------------------------
(* Claims about the scraper session (checked under Spec) *)

IdsOf(b) == IF b.t = "None" THEN <<>> ELSE b.v

IsReport(e) == e.req = "report"
IsReportTraffic(e) == e.req \in {"report", "report_alt"}
IsLoginTraffic(e) == e.req \in {"landing", "login_post", "https_retry", "validate"}

Last(seq) == seq[Len(seq)]

\* C1: the candidates are requested strictly in the order of the batch id
\* list; every candidate before the latest one yielded no rows; a candidate
\* that yields rows ends the scrape with exactly those rows, so no report
\* request follows it.
C1_FirstSuccessWins ==
    LET reports == SelectSeq(reqLog, IsReport)
    IN  /\ Len(fetched) <= Len(IdsOf(batch_class_ids))
        /\ Len(reports) = Len(fetched)
        /\ \A i \in 1..Len(fetched) :
              /\ fetched[i].batch = Str(IdsOf(batch_class_ids)[i])
              /\ reports[i].batch = fetched[i].batch
              /\ i < Len(fetched) => ~PyTruthy(fetched[i].val)
        /\ \A i \in 1..Len(reqLog) :
              reqLog[i].req = "report_alt" =>
                  i > 1 /\ reqLog[i - 1].req = "report" /\ reqLog[i - 1].batch = reqLog[i].batch
        /\ (fetched # <<>> /\ PyTruthy(Last(fetched).val)) =>
              /\ pc \in {"logout", "done"}
              /\ scrapeResult = Returned(Last(fetched).val)
        /\ (scrapeResult.t = "returned" /\ PyTruthy(scrapeResult.val)) =>
              fetched # <<>> /\ scrapeResult.val = Last(fetched).val

\* C1 witness: the first of two candidates yielded rows and the second was
\* never requested
C1_Witness ==
    /\ pc = "done"
    /\ Len(candidates) = 2
    /\ Len(fetched) = 1
    /\ PyTruthy(fetched[1].val)
    /\ scrapeResult = Returned(fetched[1].val)

\* C2: a report request is in the log only when login() returned without
\* raising, after its validation (src/main.py: no login markers in the final
\* body; the engine: its profile check), and after every login request; when login()
\* raised, scrape_attendance_data was not called and issued nothing.
C2_LoginBeforeReport ==
    /\ (\E i \in 1..Len(reqLog) : IsReportTraffic(reqLog[i])) =>
          /\ loginResult = LoginOk
          /\ variant = "main" => ~loginFinal.markers
          /\ variant = "engine" => \E j \in 1..Len(reqLog) : reqLog[j].req = "validate"
          /\ \A i, j \in 1..Len(reqLog) :
                (IsReportTraffic(reqLog[i]) /\ IsLoginTraffic(reqLog[j])) => j < i
    /\ loginResult.type \notin {"none", "ok"} =>
          /\ scrapeResult = NotCalled
          /\ fetched = <<>>
          /\ \A i \in 1..Len(reqLog) : reqLog[i].req \notin {"profile", "report", "report_alt"}

\* C2 witness: login() raised after its POST and the call ended without a
\* scrape
C2_Witness ==
    /\ pc = "done"
    /\ loginResult.type = "AuthenticationError"
    /\ \E i \in 1..Len(reqLog) : reqLog[i].req = "login_post"
    /\ scrapeResult = NotCalled

ConfiguredNonEmpty ==
    \/ configured.t = "int"
    \/ configured.t = "list" /\ configured.v # <<>>

\* C4: with a non-empty configured list the fetcher walks exactly that list,
\* in its order, and _fetch_semester_batch_ids is never called; ids come from
\* discovery only when nothing is configured.
C4_ConfiguredIdsWin ==
    /\ (ConfiguredNonEmpty /\ pc # "new") =>
          /\ discoverySeen = <<>>
          /\ auto_ids = PyNone
          /\ batch_class_ids = configured
          /\ \A i \in 1..Len(reqLog) : reqLog[i].req # "semesters"
          /\ idx >= 1 => candidates = [i \in 1..Len(IdsOf(configured)) |-> Str(IdsOf(configured)[i])]
          /\ \A i \in 1..Len(fetched) : fetched[i].batch = Str(IdsOf(configured)[i])
    /\ (auto_ids # PyNone \/ batch_class_ids # configured) => ~ConfiguredNonEmpty

\* C4 witness: a session of src/main.py with a configured batch id that
\* requested it
C4_Witness ==
    /\ variant = "main"
    /\ ConfiguredNonEmpty
    /\ pc = "done"
    /\ fetched # <<>>

\* C7: no exception leaves scrape_attendance_data once a candidate has been
\* requested; while the loop runs every tried candidate has been followed by
\* the next index; None comes back from the loop only when every candidate
\* was tried and none yielded rows.
C7_CandidateFailuresAreLocal ==
    /\ scrapeResult.t = "raised" => fetched = <<>>
    /\ pc = "fetch_loop" =>
          /\ Len(fetched) = idx - 1
          /\ \A i \in 1..Len(fetched) : ~PyTruthy(fetched[i].val)
    /\ (scrapeResult = Returned(PyNone) /\ idx >= 1) =>
          /\ Len(fetched) = Len(candidates)
          /\ \A i \in 1..Len(fetched) : ~PyTruthy(fetched[i].val)
    /\ (fetched # <<>> /\ lastWhy # "rows") =>
          \/ pc = "fetch_loop"
          \/ scrapeResult = Returned(PyNone)

\* C7 witness: two candidates were tried, the second one's request failed on
\* the network, and the scrape returned None
C7_Witness ==
    /\ pc = "done"
    /\ Len(fetched) = 2
    /\ lastWhy = "network_error"
    /\ scrapeResult = Returned(PyNone)

IsSuccessStatus(st) == st >= 200 /\ st < 300

\* C9 (as claimed): a final response of the login POST with a non-2xx status
\* never lets login() return normally.
C9_NonOkFinalStatusFailsLogin ==
    (loginFinal.status # 0 /\ ~IsSuccessStatus(loginFinal.status)) => loginResult # LoginOk

\* the constructor raised: the call ended before its try block, without a
\* scraper, a login or a logout
ConstructorRaised == loginResult.type = "none" /\ callResult = CallRaised("ConfigurationError")

\* C10: login() ends by returning or by raising AuthenticationError, whatever
\* was raised inside it; a call that never reached the scrape ended with
\* that exception type.
C10_LoginRaisesOnlyAuthenticationError ==
    /\ loginResult.type \in {"none", "ok", "AuthenticationError"}
    /\ loginResult.cause # None => loginResult.type = "AuthenticationError"
    /\ (pc \in {"logout", "done"} /\ scrapeResult = NotCalled /\ ~ConstructorRaised) =>
          loginResult.type = "AuthenticationError"

\* C10 witness: the login POST failed on the network and login() raised
C10_Witness ==
    /\ pc = "done"
    /\ loginResult.cause = "ConnectionError"
    /\ Last(SelectSeq(reqLog, IsLoginTraffic)).req = "login_post"

\* C11: whether or not the logout request failed, the caller receives what
\* the try block produced: the rows (or None) scrape_attendance_data
\* returned, or the exception login() or scrape_attendance_data raised.
C11_LogoutNeverChangesOutcome ==
    (pc = "done" /\ ~ConstructorRaised) =>
        /\ callResult = TryOutcome(loginResult, scrapeResult)
        /\ scrapeResult.t = "returned" => callResult = Returned(scrapeResult.val)
        /\ loginResult.type = "AuthenticationError" =>
              callResult = CallRaised("AuthenticationError")
        /\ scrapeResult.t = "raised" => callResult = CallRaised("AttendanceScrapingError")

\* C11 witness: the scrape returned rows, the logout request failed, and
\* the caller has the rows
C11_Witness ==
    /\ pc = "done" /\ reqLog # <<>>
    /\ Last(reqLog) = Req("logout", "", "failed")
    /\ PyTruthy(scrapeResult.val)
    /\ callResult = Returned(scrapeResult.val)

IsLogout(e) == e.req = "logout"

\* C12: a call that has ended made exactly one logout request, its last
\* request; a call still running has made none.
C12_LogoutExactlyOnceLast ==
    /\ (pc = "done" /\ ~ConstructorRaised) =>
          /\ Len(SelectSeq(reqLog, IsLogout)) = 1
          /\ Last(reqLog).req = "logout"
    /\ pc # "done" => SelectSeq(reqLog, IsLogout) = <<>>
    /\ callResult # Running => pc = "done"
    /\ ConstructorRaised => reqLog = <<>>

\* C12 witness: login() raised before its POST and the call ended with the
\* logout request
C12_Witness ==
    /\ pc = "done"
    /\ loginResult.type = "AuthenticationError"
    /\ Len(reqLog) = 2
    /\ reqLog[1].req = "landing" /\ reqLog[2].req = "logout"

NotLogout(e) == e.req # "logout"

\* the scrape ended right after its discovery request, which yielded no ids
ScrapeDiscoveryYieldedNothing ==
    /\ scrapeResult # NotCalled
    /\ discoverySeen # <<>> /\ ~PyTruthy(Last(discoverySeen).ids)
    /\ Last(SelectSeq(reqLog, NotLogout)).req = "semesters"

\* C13 (as claimed): when no batch ids are configured and the discovery of
\* scrape_attendance_data yields nothing, be it a response without options
\* or a failed request, no report request is made and None is returned.
C13_NoIdsMeansNoData ==
    ScrapeDiscoveryYieldedNothing =>
        /\ scrapeResult = Returned(PyNone)
        /\ \A i \in 1..Len(reqLog) : ~IsReportTraffic(reqLog[i])

\* fetch_student_attendance returned None to the handler of POST /attendance,
\* which has answered
AnsweredNoData ==
    /\ httpResponse.status # 0
    /\ callResult.t = "returned" /\ callResult.val.t = "None"

\* C26 (as claimed): when fetch_student_attendance returns None, no candidate
\* having yielded rows, POST /attendance answers 404 and not a 5xx status.
C26_NoDataIs404 == AnsweredNoData => httpResponse.status = 404

IsServerError(status) == status >= 500 /\ status <= 599

\* login() raised AuthenticationError and POST /attendance has answered
AnsweredLoginFailure ==
    httpResponse.status # 0 /\ loginResult.type = "AuthenticationError"

\* C27 (as claimed): an AuthenticationError of login() reaches the HTTP caller
\* as 401, except that a network failure during login (a
\* requests.RequestException) reaches it as a 5xx status.
C27_LoginFailureStatus ==
    AnsweredLoginFailure =>
        IF loginResult.cause \in RequestExceptions
        THEN IsServerError(httpResponse.status)
        ELSE httpResponse.status = 401

\* the discoveries of the call that found batch ids
FoundIds(res) == res.t = "pair" /\ PyTruthy(res.ids)

\* the scrape used discovered batch ids, succeeded, and was answered
AnsweredDiscoveredScrape ==
    /\ variant = "main" /\ httpResponse.status = 200
    /\ SelectSeq(discoverySeen, FoundIds) # <<>>

\* C30 (as claimed): when the batch ids of a successful scrape were
\* discovered, at login or during scraping, the session holds them as
\* auto-discovered and the result carries a suggestion together with
\* the discovered ids (a redirect URL written from the ids counts as both).
C30_DiscoveredIdsReported ==
    AnsweredDiscoveredScrape =>
        LET found == Last(SelectSeq(discoverySeen, FoundIds)).ids
            result == httpResponse.result
        IN  /\ auto_ids = found
            /\ \/ result.redirect = found
               \/ result.suggestions /\ result.discovered_batch_ids = found

\* the identifiers followed that the backend cannot resolve: a known cohort
\* without a stored mapping, and no known cohort
Unresolvable == {"PES1UG24ME001", "PES1UG22CS001"}

\* C31: in the backend, constructing a scraper for an identifier of no known
\* cohort, or of a cohort without a stored mapping, raises ConfigurationError
\* and no network request has been made.
C31_UnresolvableFailsBeforeNetwork ==
    (variant = "engine" /\ pc # "new" /\ request.username \in Unresolvable) =>
        /\ pc = "done"
        /\ callResult = CallRaised("ConfigurationError")
        /\ reqLog = <<>>

\* C31 witness: the SRN of a known cohort without a mapping was refused and
\* the caller answered
C31_Witness ==
    /\ variant = "engine" /\ request.username = "PES1UG24ME001"
    /\ callResult = CallRaised("ConfigurationError") /\ httpResponse.status = 500

\* C32: in src/main.py the construction of a scraper never fails, whatever
\* the identifier: it leaves no batch ids configured (or the one batch_id of
\* the request), makes no network request and changes nothing else.
C32_PermissiveResolutionNeverFails ==
    [][(variant = "main" /\ pc = "new" /\ HasCredentials(request)) =>
          /\ pc' = "login_get"
          /\ callResult' = Running
          /\ batch_class_ids' \in {PyNone} \cup {PyList(<<b>>) : b \in BatchIdDomain}
          /\ UNCHANGED <<reqLog, cookies, csrf_token, auto_ids, pr_suggestion, loginResult,
                         scrapeResult, discoverySeen, httpResponse, request>>]_vars

\* C32 witness: a scraper was constructed for an identifier of no known cohort
C32_Witness ==
    /\ variant = "main" /\ request.username = "PES1UG22CS001"
    /\ pc = "login_get" /\ batch_class_ids = PyNone /\ reqLog = <<>>

\* C39 (as claimed): POST /attendance (src/main.py) without a username or
\* without a password is answered 400 and no scraper session is started.
C39_MissingCredentialsIs400 ==
    (variant = "main" /\ pc # "new" /\ ~HasCredentials(request)) =>
        /\ httpResponse.status = 400
        /\ callResult = Running /\ reqLog = <<>>

\* C33 (as claimed): once the session holds auto-discovered batch ids they
\* are not assigned again and the discovery is not repeated, whatever the
\* ids found (a single id 0 included).
C33_DiscoveredIdsSetOnce ==
    [][auto_ids.t # "None" =>
          /\ auto_ids' = auto_ids
          /\ reqLog' # reqLog => Last(reqLog').req # "semesters"]_vars

\* the token the login POST is due: the _csrf value of the login form when
\* there is one, else what the page-wide scan finds, else the cookie value
DueLoginToken(body, jar) ==
    LET scan == _extract_csrf_token(body)
    IN  IF Truthy(FormCsrf(body)) THEN FormCsrf(body)
        ELSE IF scan.exc = None /\ Truthy(scan.val) THEN scan.val
        ELSE Or(jar.xsrf, jar.csrf)

IsLoginPost(q) == q.req = "login_post"

\* C34: the login POST carries the form's _csrf value, else the token of the
\* page-wide scan, else the cookie value; when none of the three yields a
\* token, login() raises AuthenticationError and no login POST is sent.
C34_LoginTokenPriority ==
    /\ [](r0.seen =>
            LET due == DueLoginToken(r0.body, cookies)
                posts == SelectSeq(reqLog, IsLoginPost)
            IN  IF loginResult.type = "none" /\ Truthy(due)
                THEN pc = "login_post" /\ csrf_token = due /\ posts = <<>>
                ELSE loginResult.type = "AuthenticationError" /\ posts = <<>>)
    /\ [][(r0.seen /\ pc = "login_post" /\ reqLog' # reqLog) =>
             /\ Len(SelectSeq(reqLog', IsLoginPost)) = 1
             /\ SelectSeq(reqLog', IsLoginPost)[1].tok = DueLoginToken(r0.body, cookies)]_vars

\* C34 witness: the form held no token, the page-wide scan found one, and it
\* was posted although a cookie was at hand
C34_Witness ==
    /\ ~r0.seen /\ cookies.csrf = "CK2"
    /\ SelectSeq(reqLog, IsLoginPost) # <<>>
    /\ SelectSeq(reqLog, IsLoginPost)[1].tok = "B"

\* the landing page and the cookies yielded no token
C34_WitnessNoToken ==
    /\ r0.seen /\ r0.body = <<>> /\ cookies = EmptyJar
    /\ loginResult.type = "AuthenticationError"

----------------------------------------------------------------------------
(* Claims about parsing and formatting (checked under SpecFmt) *)

\* at least 2 cells, the first of them non-empty
KeptBySpec(row) == Len(row) >= 2 /\ row[1] # ""

\* C14 (as claimed): the parser returns exactly the table rows that have at
\* least 2 cells and a non-empty first cell, rows with an "NA" ratio
\* included, in table order (None when there is no such row).
C14_ParserKeepsRows ==
    parserOut.t # "pending" =>
        LET expected == SelectSeq(tableRows, KeptBySpec)
        IN  parserOut = IF expected = <<>> THEN PyNone ELSE PyList(expected)

\* the formatter was handed exactly one row
FormattedOneRow == formatterOut.t = "list" /\ Len(parserOut.v) = 1

\* the ratio cell of a row
RatioOf(row) == IF Len(row) >= 3 THEN row[3] ELSE None

\* a field of a formatted record, NoValue when the record has no such field
Field(rec, f) == IF f \in DOMAIN rec THEN rec[f] ELSE NoValue

\* the only record of the output carries these counts and this percentage
YieldsCounts(attended, total, percentage) ==
    /\ Len(formatterOut.v) = 1
    /\ Field(formatterOut.v[1], "attended") = attended
    /\ Field(formatterOut.v[1], "total") = total
    /\ Field(formatterOut.v[1], "percentage") = percentage

\* the only record of the output has no count and no percentage: each of the
\* three is null (a record without the key reads as null)
YieldsNulls ==
    /\ Len(formatterOut.v) = 1
    /\ \A f \in {"attended", "total", "percentage"} :
           Field(formatterOut.v[1], f) \in {PyNone, NoValue}

\* C15 (as claimed): a row with ratio "a/t" is formatted to attended = a,
\* total = t and percentage = 100*a/t rounded to 2 places ("18/20" gives
\* 18, 20, 90.00; "1/3" gives 1, 3, 33.33); a row with ratio "NA" is
\* formatted to attended, total and percentage all null.
C15_RatioFormatting ==
    FormattedOneRow =>
        LET ratio == RatioOf(parserOut.v[1])
        IN  /\ ratio = "18/20" => YieldsCounts(PyInt(18), PyInt(20), PyFloat(9000))
            /\ ratio = "1/3" => YieldsCounts(PyInt(1), PyInt(3), PyFloat(3333))
            /\ ratio = "NA" => YieldsNulls

\* a ratio cell that is absent, "NA" or not of the form "a/t"
NoRatio(row) == RatioOf(row) \in {None, "NA", "late"}

\* C16 (as claimed): the formatted list has one record per parser row, in
\* the parser's order, and the record of a row with an "NA" or malformed
\* ratio has null counts.
C16_FormattingKeepsEveryRow ==
    formatterOut.t = "list" =>
        /\ Len(formatterOut.v) = Len(parserOut.v)
        /\ \A i \in 1..Len(parserOut.v) :
               /\ formatterOut.v[i].subject = Subject(parserOut.v[i][1])
               /\ NoRatio(parserOut.v[i]) =>
                      \A f \in {"attended", "total", "total_classes"} :
                          Field(formatterOut.v[i], f) \in {PyNone, NoValue}

\* C17 (as claimed): the record of a row whose ratio parses with total = 0
\* ("0/0") has a null percentage.
C17_ZeroTotalNullPercentage ==
    (FormattedOneRow /\ RatioOf(parserOut.v[1]) = "0/0") =>
        /\ Len(formatterOut.v) = 1
        /\ Field(formatterOut.v[1], "percentage") = PyNone

----------------------------------------------------------------------------
(* Claims about calculate_bunkable (checked under SpecBunk) *)

\* C18 (as claimed): the value returned is the largest k >= 0 with
\* attended*100 >= T*(total + k), and 0 when total = 0 or when the
\* attendance is already below T.
C18_BunkableIsLargestK ==
    bunkOut.t = "int" =>
        LET attended == bunkArgs.attended_classes
            total == bunkArgs.total_classes
            T == bunkArgs.threshold
            k == bunkOut.v[1]
        IN  IF total = 0 \/ attended * 100 < T * total
            THEN k = 0
            ELSE /\ attended * 100 >= T * (total + k)
                 /\ attended * 100 < T * (total + k + 1)

\* C19: for total > 0 the value returned is never negative, a higher
\* threshold never gives a higher value, and one more attended class never
\* gives a lower value.
C19_BunkableMonotone ==
    (bunkOut.t = "int" /\ bunkArgs.total_classes > 0) =>
        LET attended == bunkArgs.attended_classes
            total == bunkArgs.total_classes
            T == bunkArgs.threshold
        IN  /\ bunkOut.v[1] >= 0
            /\ \A higher \in {t \in Thresholds : t > T} :
                   calculate_bunkable(total, attended, higher) <= bunkOut.v[1]
            /\ calculate_bunkable(total, attended + 1, T) >= bunkOut.v[1]

\* 18 of 20 at 75: some classes can be skipped, fewer at a higher threshold,
\* more with one more class attended
C19_Witness ==
    /\ bunkArgs = [total_classes |-> 20, attended_classes |-> 18, threshold |-> 75]
    /\ bunkOut = PyInt(4)
    /\ calculate_bunkable(20, 18, 100) < 4
    /\ calculate_bunkable(20, 19, 75) > 4

----------------------------------------------------------------------------
(* Claims about _extract_csrf_token (checked under SpecCsrf) *)

----------------------------------------------------------------------------
(* Claims about the websocket server (checked under SpecSrv) *)

LinesBy(r, lines) == \A i \in 1..Len(lines) : lines[i].by = r

\* C3: whatever the interleaving of two tasks, every line in a request
\* handler's logs, in its context's all_logs (after the initial entry written
\* on creation), in its broadcast tasks and in the log messages sent to its
\* connection was logged while that request's id was the current request id.
C3_NoCrossTalk ==
    \A r \in RequestIds :
        /\ LinesBy(r, handlerLogs[r])
        /\ LinesBy(r, broadcasts[r])
        /\ r \in DOMAIN request_store =>
              \A i \in 1..Len(request_store[r].all_logs) :
                  \/ request_store[r].all_logs[i] = InitialEntry
                  \/ request_store[r].all_logs[i].by = r
        /\ \A i \in 1..Len(sent[r]) :
              sent[r][i].type = "log" => sent[r][i].data.by = r

\* C3 witness: both tasks are suspended with their handlers attached, each
\* has logged, and each connection has received a log line
C3_Witness ==
    /\ handlers = RequestIds
    /\ \A r \in RequestIds :
          /\ taskPc[r] \in {"result", "error"}
          /\ Len(handlerLogs[r]) >= 2
          /\ \E i \in 1..Len(sent[r]) : sent[r][i].type = "log"

\* a step in which a task runs its finally block, hence the sweep
SweepStep == \E r \in RequestIds : taskPc[r] # "done" /\ taskPc'[r] = "done"

\* C5 (as claimed): after a sweep at time now, no context with
\* now >= timestamp + REQUEST_TIMEOUT_SECONDS is in request_store.
C5_AbsentFromWindowOn ==
    [][SweepStep =>
          \A q \in DOMAIN request_store' :
              now < request_store'[q].timestamp + REQUEST_TIMEOUT_SECONDS]_vars

\* C5 (amended): a sweep at time now removes exactly the contexts with
\* now > timestamp + REQUEST_TIMEOUT_SECONDS, whatever their status; one whose
\* age equals the window stays.
C5_AbsentPastWindow ==
    [][SweepStep =>
          /\ DOMAIN request_store' \subseteq DOMAIN request_store
          /\ \A q \in DOMAIN request_store :
                (q \in DOMAIN request_store') <=>
                    (now <= request_store[q].timestamp + REQUEST_TIMEOUT_SECONDS)]_vars

\* C5 witness: a context that never got a task (its auth_success send
\* failed), so still "processing", has been removed by another task's sweep
C5_Witness ==
    \E q \in RequestIds :
        /\ wsPc[q] = "closed" /\ taskPc[q] = "none"
        /\ q \in active_connections
        /\ q \notin DOMAIN request_store

Terminal == {"complete", "error"}

\* C6: a task past its synchronous part whose context exists has left it
\* "complete" (success path) or "error" (error path, with a detail message
\* and with the lines the task logged, from its first line to the error
\* line, in all_logs); a status changes only from "processing" and only
\* to one of the two.
C6_SingleTerminalStatus ==
    [][ /\ \A r \in DOMAIN request_store' :
              LET c == request_store'[r]
              IN  /\ taskPc'[r] \in {"result", "result_failed"} => c.status = "complete"
                  /\ taskPc'[r] \in {"error", "error_failed"} => c.status = "error"
                  /\ taskPc'[r] = "done" => c.status \in Terminal
                  /\ taskPc'[r] \in {"none", "ready"} => c.status = "processing"
                  /\ c.status = "error" =>
                        /\ c.detail # ""
                        /\ c.all_logs = handlerLogs'[r]
                        /\ c.all_logs[1].msg = "Starting attendance processing"
                        /\ c.all_logs[2].msg = c.detail
                  /\ c.status # "error" => c.detail = ""
        /\ \A r \in DOMAIN request_store \cap DOMAIN request_store' :
              request_store'[r].status # request_store[r].status =>
                  /\ request_store[r].status = "processing"
                  /\ request_store'[r].status \in Terminal
      ]_vars

\* C6 witness: a finished task whose scrape failed, its context still there
C6_Witness ==
    \E r \in RequestIds :
        /\ taskPc[r] = "done"
        /\ r \in DOMAIN request_store
        /\ request_store[r].status = "error"
        /\ Len(request_store[r].all_logs) >= 2

\* where process_attendance_task emits a line, in the order of its statements
EmissionRank(msg) ==
    CASE msg = "Starting attendance processing" -> 1
      [] msg = "Generating attendance visualization" -> 2
      [] msg = "Attendance processing error" -> 2
      [] msg = "Unexpected error during processing" -> 2
      [] msg = "Failed to send WebSocket message" -> 3
      [] msg = "Attendance processing completed successfully" -> 4

\* the records are in the order they were emitted
InEmissionOrder(records) ==
    \A i, j \in 1..Len(records) :
        i < j => EmissionRank(records[i].msg) < EmissionRank(records[j].msg)

\* the log lines delivered on connection c, in the order of their sending
LogEvents(c) ==
    LET events == SelectSeq(sent[c], LAMBDA m : m.type = "log")
    IN  [i \in 1..Len(events) |-> events[i].data]

\* C20: the log lines of one request stand in its logs in the order they
\* were emitted, and the log events sent on its connection are lines of
\* its logs, sent in that same order.
C20_LogsInEmissionOrder ==
    \A h \in RequestIds :
        /\ InEmissionOrder(handlerLogs[h])
        /\ InEmissionOrder(LogEvents(h))
        /\ \A i \in 1..Len(LogEvents(h)) :
               \E k \in 1..Len(handlerLogs[h]) : handlerLogs[h][k] = LogEvents(h)[i]

\* a connection has received two log events of a request with a finished task
C20_Witness ==
    \E h \in RequestIds :
        /\ Len(LogEvents(h)) >= 2
        /\ Len(handlerLogs[h]) >= 3
        /\ taskPc[h] = "done"

\* s is an initial part of t
IsPrefix(s, t) == Len(s) <= Len(t) /\ SubSeq(t, 1, Len(s)) = s

\* C21 (as claimed): while a request context exists its all_logs only grows
\* by appending: across every step the earlier sequence, the initial entry
\* included, is a prefix of the later one.
C21_AllLogsAppendOnly ==
    [][\A r \in DOMAIN request_store \cap DOMAIN request_store' :
           IsPrefix(request_store[r].all_logs, request_store'[r].all_logs)]_vars

\* this step is a broadcast_log of request h whose send_json raises: the
\* connection is registered and its client has gone
ForwardFails(h) ==
    /\ broadcasts[h] # <<>> /\ Len(broadcasts'[h]) < Len(broadcasts[h])
    /\ h \in active_connections /\ h \notin open

\* C22: a log line that cannot be forwarded changes neither the request
\* contexts nor the position of any task, reaches no client, and leaves
\* active_connections without an entry for the request.
C22_ForwardFailureSwallowed ==
    [][\A h \in RequestIds :
           ForwardFails(h) =>
               /\ h \notin active_connections'
               /\ UNCHANGED <<request_store, taskPc, sent>>]_vars

\* the entry of h was removed while its websocket handler is still in the
\* keepalive loop: only a failed forward does that
C22_Witness ==
    \E h \in RequestIds :
        wsPc[h] = "maintain" /\ h \notin active_connections /\ h \notin open

\* C23 (as claimed): once the websocket handler of a connection has ended,
\* active_connections holds no entry for it.
C23_NoEntryAfterHandlerEnd ==
    \A c \in RequestIds : wsPc[c] = "closed" => c \notin active_connections

\* C24 (as claimed): a sweep that deletes the expired context of a request
\* removes the request's active_connections entry as well.
C24_SweepRemovesConnection ==
    [][SweepStep =>
          \A q \in DOMAIN request_store \ DOMAIN request_store' :
              q \notin active_connections']_vars

\* request c has a step to take as soon as the event loop gets to it: a first
\* message to handle, a returned send to resume from, a created task to
\* start, a disconnect to see in the keepalive loop
HasWork(c) ==
    \/ wsPc[c] = "idle" /\ c \in open
    \/ wsPc[c] \in {"auth_sent", "auth_failed"}
    \/ wsPc[c] = "maintain" /\ c \notin open
    \/ taskPc[c] = "ready"

\* C25 (as claimed): while the scrape of one request waits on the portal,
\* another request's websocket handler, keepalive loop or task that has a
\* step to take can take it.
C25_LoopNotStalled ==
    \A r, c \in RequestIds :
        (taskPc[r] = "scraping" /\ c # r /\ HasWork(c)) =>
            ENABLED (WsFirstMessage(c) \/ WsAuthSent(c) \/ WsDisconnect(c) \/ TaskStart(c))

\* C28 (as claimed): a request's password is held only while its scrape
\* runs: a context whose status is complete or error no longer holds it.
C28_PasswordDroppedAfterScrape ==
    \A r \in DOMAIN request_store :
        request_store[r].status \in {"complete", "error"} =>
            request_store[r].password = None

----------------------------------------------------------------------------
(* Claims about the keepalive loop (checked under SpecKeep) *)

Pinged(c) == SelectSeq(sent[c], IsPing) # <<>>

----------------------------------------------------------------------------
(* Claims about the loop of calculate_bunkable (checked under SpecLoop) *)

----------------------------------------------------------------------------
(* Further claims about the websocket server (checked under SpecSrv) *)

\* C40: a first message that is not of type auth, or an auth message without
\* srn or password, is answered with an error event and changes nothing
\* else: no request context, no active_connections entry, no task, no log.
C40_RejectedFirstMessageChangesNothing ==
    [][\A c \in RequestIds :
          (wsPc[c] = "idle" /\ wsPc'[c] = "closed") =>
              /\ \E first \in FirstMessages \ {"auth"} :
                    sent' = [sent EXCEPT ![c] = Append(@, Msg("error", first))]
              /\ UNCHANGED <<request_store, active_connections, taskPc, handlers,
                             handlerLogs, broadcasts, open>>]_vars

\* C40 witness: an auth message without credentials was refused while the
\* other client's request was being processed
C40_Witness ==
    \E c, r \in RequestIds :
        /\ wsPc[c] = "closed" /\ sent[c] = <<Msg("error", "auth_missing")>>
        /\ c \notin DOMAIN request_store /\ taskPc[c] = "none"
        /\ r # c /\ r \in DOMAIN request_store /\ r \in active_connections

IsLogMsg(m) == m.type = "log"

\* C36: RequestLogHandler.emit writes to no connection. A step in which a
\* handler emits lines delivers no log event to any client; the lines are
\* appended to the handler's logs and, when the request has a context and a
\* registered connection, one forwarding task per line is queued, else none.
C36_EmitOnlySchedules ==
    [][\A h \in RequestIds :
          handlerLogs'[h] # handlerLogs[h] =>
              LET emitted == SubSeq(handlerLogs'[h], Len(handlerLogs[h]) + 1,
                                    Len(handlerLogs'[h]))
              IN  /\ handlerLogs'[h] = handlerLogs[h] \o emitted
                  /\ \A c \in RequestIds :
                        SelectSeq(sent'[c], IsLogMsg) = SelectSeq(sent[c], IsLogMsg)
                  /\ broadcasts'[h] =
                        IF h \in DOMAIN request_store /\ h \in active_connections
                        THEN broadcasts[h] \o emitted
                        ELSE broadcasts[h]]_vars

\* C36 witness: a line was emitted for a connected client, its forwarding
\* task is queued and no log event has been written to the connection
C36_Witness ==
    \E h \in RequestIds :
        /\ h \in open /\ h \in active_connections
        /\ handlerLogs[h] # <<>> /\ broadcasts[h] = handlerLogs[h]
        /\ SelectSeq(sent[h], IsLogMsg) = <<>>

IsTerminalEvent(m) == m.type \in {"result", "error"}

\* the lines process_attendance_task emits before it sends its terminal event
EmittedBeforeTerminal(record) == EmissionRank(record.msg) <= 2

\* C37: on a connection that stays open, the log event of every line emitted
\* before the task sends its result or error event is delivered before that
\* event: when the terminal event is on the connection no forwarding task of
\* such a line is still queued, and no such log event follows it.
C37_LogsBeforeTerminalEvent ==
    \A c \in open :
        /\ (\E i \in 1..Len(sent[c]) : IsTerminalEvent(sent[c][i])) =>
              SelectSeq(broadcasts[c], EmittedBeforeTerminal) = <<>>
        /\ \A i, j \in 1..Len(sent[c]) :
              (/\ IsTerminalEvent(sent[c][i])
               /\ IsLogMsg(sent[c][j])
               /\ EmittedBeforeTerminal(sent[c][j].data)) => j < i

\* the result event reached an open connection ahead of the log event of the
\* task's first line
C37_ResultOvertakesLogs ==
    \E c \in open :
        \E i, j \in 1..Len(sent[c]) :
            /\ i < j
            /\ sent[c][i].type = "result"
            /\ IsLogMsg(sent[c][j])
            /\ sent[c][j].data.msg = "Starting attendance processing"

\* an event written through the registry entry of c: a log event, a result
\* event, or the error event of the task
ViaRegistry(c, m) == m.type \in {"log", "result"} \/ (m.type = "error" /\ m.data = c)

\* C35: no task indexes request_store or active_connections with an absent
\* request id. No websocket handler ends with a KeyError from its finally
\* block, although the entry may be gone by then; the context a task checked
\* before the synchronous fetch is still in request_store when the task
\* indexes it after the fetch; and an event is written through
\* active_connections[c] only in a step that finds c registered.
C35_NoAccessWithAbsentId ==
    /\ [](\A c \in RequestIds :
             /\ wsPc[c] # "raised"
             /\ taskPc[c] = "scraping" => c \in DOMAIN request_store)
    /\ [][\A c \in RequestIds :
             (/\ Len(sent'[c]) = Len(sent[c]) + 1
              /\ ViaRegistry(c, sent'[c][Len(sent'[c])])) =>
                 c \in active_connections]_vars

\* C35 witness: a forwarding task has removed the registry entry of a client
\* that went away, its handler is still in the keepalive loop and will run
\* its finally block with the entry absent; the client's task has indexed
\* its context after the fetch
C35_Witness ==
    \E c \in RequestIds :
        /\ wsPc[c] = "maintain" /\ c \notin open /\ c \notin active_connections
        /\ taskPc[c] \in {"result_failed", "error_failed", "done"}
        /\ handlerLogs[c] # <<>>

=============================================================================
